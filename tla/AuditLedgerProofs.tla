------------------------- MODULE AuditLedgerProofs -------------------------
(* Proofs that every behaviour of AuditLedger keeps its event store well     *)
(* typed, consistent, chained, ordered and traceable, for all constants;     *)
(* about what it keeps beside its events (the indexes, the deduplication     *)
(* maps, nonces, access lists, limits, owners and proposals); and that its   *)
(* rules hold at every step: the quorum of proposals, admission, the caps of *)
(* event types, and deduplication.                                           *)
EXTENDS AuditLedger, SequenceTheorems, FiniteSetTheorems, WellFoundedInduction, TLAPS

-----------------------------------------------------------------------------
(* Sequences given by a rule.                                                *)

(* A function on 1..n with values in S is a sequence of length n.            *)
LEMMA RuleIsSeq ==
    ASSUME NEW S, NEW n \in Nat, NEW a \in [1..n -> S]
    PROVE  a \in Seq(S) /\ Len(a) = n
OBVIOUS

(* Appending the next value extends the rule by one.                         *)
LEMMA AppendRule ==
    ASSUME NEW S, NEW n \in Nat, NEW a \in [1..n -> S], NEW b \in [1..(n + 1) -> S],
           \A k \in 1..n : a[k] = b[k]
    PROVE  Append(a, b[n + 1]) = b
<1>1. a \in Seq(S) /\ Len(a) = n BY RuleIsSeq
<1>2. b \in Seq(S) /\ Len(b) = n + 1 BY RuleIsSeq
<1>3. b[n + 1] \in S OBVIOUS
<1>4. /\ Append(a, b[n + 1]) \in Seq(S)
      /\ Len(Append(a, b[n + 1])) = n + 1
      /\ \A k \in 1..n : Append(a, b[n + 1])[k] = a[k]
      /\ Append(a, b[n + 1])[n + 1] = b[n + 1]
  BY <1>1, <1>3, AppendProperties
<1>. QED BY <1>2, <1>4, SeqEqual

(* c has n + m values in S: those of a, then those of b.                     *)
Splits(c, a, b, n, m, S) ==
    /\ n \in Nat /\ m \in Nat
    /\ a \in [1..n -> S] /\ b \in [1..m -> S] /\ c \in [1..(n + m) -> S]
    /\ \A k \in 1..n : a[k] = c[k]
    /\ \A k \in 1..m : b[k] = c[n + k]

(* A prefix of the rule followed by the rest of it is the whole.             *)
LEMMA ConcatRule ==
    ASSUME NEW S, NEW n, NEW m, NEW a, NEW b, NEW c, Splits(c, a, b, n, m, S)
    PROVE  a \o b = c
<1>. USE DEF Splits
<1>1. a \in Seq(S) /\ Len(a) = n BY RuleIsSeq
<1>2. b \in Seq(S) /\ Len(b) = m BY RuleIsSeq
<1>3. n + m \in Nat OBVIOUS
<1>4. c \in Seq(S) /\ Len(c) = n + m BY <1>3, RuleIsSeq
<1>5. /\ a \o b \in Seq(S)
      /\ Len(a \o b) = n + m
      /\ \A i \in 1..(n + m) : (a \o b)[i] = IF i <= n THEN a[i] ELSE b[i - n]
  BY <1>1, <1>2, ConcatProperties, ZenonT(60)
<1>6. ASSUME NEW i \in 1..(n + m) PROVE (a \o b)[i] = c[i]
  <2>1. CASE i <= n BY <2>1, <1>5
  <2>2. CASE ~(i <= n)
    <3>1. i - n \in 1..m /\ n + (i - n) = i BY <2>2
    <3>. QED BY <2>2, <3>1, <1>5
  <2>. QED BY <2>1, <2>2
<1>. QED BY <1>4, <1>5, <1>6, SeqEqual

-----------------------------------------------------------------------------
(* The inductive invariant. StoreTypeOK and StoreConsistent let every read   *)
(* of a step succeed; HashCommitsToPrefix is the chain in closed form, so    *)
(* that rehashing a suffix needs no induction over the log; HistoryFaithful  *)
(* makes a restored version an event of the same position and time.          *)
StoreInv ==
    /\ StoreTypeOK
    /\ StoreConsistent
    /\ HashCommitsToPrefix
    /\ WithinGlobalMax
    /\ TimestampsOrdered
    /\ HistoryFaithful

LinkSet == EventId \X Nat \X Nat

(* What a position of a consistent store leads to.                           *)
LEMMA EventAtType ==
    ASSUME StoreTypeOK, StoreConsistent, NEW i \in 0..(rs.total - 1)
    PROVE  /\ i \in DOMAIN order /\ i \in Nat
           /\ order[i] \in EventId
           /\ EventAt(i) \in Event
           /\ EventAt(i).timestamp \in Nat
           /\ LinkAt(i) \in LinkSet
<1>1. i \in DOMAIN order /\ i \in Nat BY DEF StoreConsistent, StoreTypeOK
<1>2. order[i] \in EventId BY <1>1 DEF StoreTypeOK, PartialMap
<1>3. EventAt(i) \in Event
  BY <1>1 DEF StoreConsistent, StoreTypeOK, PartialMap, EventAt
<1>4. EventAt(i).timestamp \in Nat BY <1>3 DEF Event
<1>. QED BY <1>1, <1>2, <1>3, <1>4 DEF LinkAt, Link, LinkSet

(* The first n links form a sequence of length n.                            *)
LEMMA LinksType ==
    ASSUME StoreTypeOK, StoreConsistent, NEW n \in 0..rs.total
    PROVE  Links(n) \in [1..n -> LinkSet] /\ n \in Nat
<1>1. n \in Nat BY DEF StoreTypeOK
<1>2. ASSUME NEW k \in 1..n PROVE LinkAt(k - 1) \in LinkSet
  <2>1. k - 1 \in 0..(rs.total - 1) BY <1>1 DEF StoreTypeOK
  <2>. QED BY <2>1, EventAtType
<1>. QED BY <1>1, <1>2 DEF Links

(* The hash stored before position n commits to the first n events.          *)
LEMMA PrevHashLinks ==
    ASSUME StoreTypeOK, StoreConsistent, HashCommitsToPrefix, NEW n \in 0..rs.total
    PROVE  PrevHash(n) = Links(n)
<1>1. CASE n = 0
  <2>1. Links(0) = <<>> BY DEF Links
  <2>. QED BY <1>1, <2>1 DEF PrevHash, Genesis
<1>2. CASE n # 0
  <2>1. n \in Nat /\ n - 1 \in DOMAIN order /\ (n - 1) + 1 = n
    BY <1>2 DEF StoreTypeOK, StoreConsistent
  <2>. QED BY <1>2, <2>1 DEF PrevHash, HashCommitsToPrefix
<1>. QED BY <1>1, <1>2

(* That hash is a hash.                                                      *)
LEMMA PrevHashType ==
    ASSUME StoreTypeOK, StoreConsistent, HashCommitsToPrefix, NEW n \in 0..rs.total
    PROVE  PrevHash(n) \in Hash
<1>1. Links(n) \in Seq(LinkSet) BY LinksType, RuleIsSeq
<1>. QED BY <1>1, PrevHashLinks DEF Hash, LinkSet

(* Hashing one more event appends its link.                                  *)
LEMMA LinksStep ==
    ASSUME StoreTypeOK, StoreConsistent, NEW i \in 0..(rs.total - 1)
    PROVE  Append(Links(i), LinkAt(i)) = Links(i + 1)
<1>1. i \in Nat /\ i \in 0..rs.total /\ i + 1 \in 0..rs.total BY DEF StoreTypeOK
<1>2. Links(i) \in [1..i -> LinkSet] BY <1>1, LinksType
<1>3. Links(i + 1) \in [1..(i + 1) -> LinkSet] BY <1>1, LinksType
<1>4. \A k \in 1..i : Links(i)[k] = Links(i + 1)[k] BY <1>1 DEF Links
<1>5. Links(i + 1)[i + 1] = LinkAt(i) BY <1>1 DEF Links
<1>. QED BY <1>1, <1>2, <1>3, <1>4, <1>5, AppendRule

(* The closed form of the chain is what verify_integrity re-derives.         *)
LEMMA CommitmentVerifies ==
    ASSUME StoreTypeOK, StoreConsistent, HashCommitsToPrefix
    PROVE  ChainIntact
<1>1. ASSUME NEW i \in 0..(rs.total - 1)
      PROVE  /\ i \in DOMAIN order
             /\ order[i] \in DOMAIN data
             /\ EventAt(i).prev_hash = PrevHash(i)
             /\ EventAt(i).event_hash =
                  compute_event_hash(order[i], EventAt(i).prev_hash, i, EventAt(i).timestamp)
  <2>1. i \in 0..rs.total BY DEF StoreTypeOK
  <2>2. i \in DOMAIN order /\ order[i] \in DOMAIN data BY DEF StoreConsistent
  <2>3. EventAt(i).prev_hash = Links(i) /\ EventAt(i).event_hash = Links(i + 1)
    BY <2>2 DEF HashCommitsToPrefix
  <2>4. PrevHash(i) = Links(i) BY <2>1, PrevHashLinks
  <2>5. Append(Links(i), LinkAt(i)) = Links(i + 1) BY LinksStep
  <2>. QED BY <2>2, <2>3, <2>4, <2>5 DEF compute_event_hash, LinkAt
<1>. QED BY <1>1 DEF ChainIntact, verify_integrity, verify_range

-----------------------------------------------------------------------------
(* Steps that leave the log alone.                                           *)

Quiet ==
    /\ UNCHANGED <<order, data, versions>>
    /\ now' \in Nat /\ now <= now'
    /\ cfg' \in [max : Nat, total : Nat] /\ cfg'.total = cfg.total
    /\ rs' \in [max : Nat, total : Nat, paused : BOOLEAN]
    /\ rs'.total = rs.total /\ rs.total <= rs'.max
    /\ snaps' = snaps \/ snaps' = Append(snaps, SnapshotNow)
    /\ proposals' \in Seq(Proposal)

(* Settings, time, snapshots and duplicates keep the store as it is.         *)
LEMMA QuietKeepsStore ==
    ASSUME StoreInv, Quiet
    PROVE  StoreInv'
<1>. USE DEF StoreInv, Quiet
<1>1. StoreTypeOK'
  <2>1. rs.total \in 0..rs.total BY DEF StoreTypeOK
  <2>2. PrevHash(rs.total) \in Hash BY <2>1, PrevHashType
  <2>3. SnapshotNow \in Snapshot BY <2>2 DEF SnapshotNow, Snapshot, StoreTypeOK
  <2>4. snaps \in Seq(Snapshot) BY DEF StoreTypeOK
  <2>5. Append(snaps, SnapshotNow) \in Seq(Snapshot) BY <2>3, <2>4, AppendProperties
  <2>6. snaps' \in Seq(Snapshot) BY <2>4, <2>5
  <2>. QED BY <2>6 DEF StoreTypeOK, PartialMap
<1>2. StoreConsistent' BY DEF StoreConsistent, EventAt, Addresses
<1>3. HashCommitsToPrefix' BY DEF HashCommitsToPrefix, EventAt, Links, LinkAt, Link
<1>4. WithinGlobalMax' BY DEF WithinGlobalMax
<1>5. TimestampsOrdered'
  <2>. SUFFICES ASSUME NEW i \in DOMAIN order, NEW j \in DOMAIN order, i <= j
                PROVE  /\ EventAt(i).timestamp <= EventAt(j).timestamp
                       /\ EventAt(j).timestamp <= now'
    BY DEF TimestampsOrdered, EventAt
  <2>1. /\ EventAt(i).timestamp <= EventAt(j).timestamp
        /\ EventAt(j).timestamp <= now
    BY DEF TimestampsOrdered
  <2>2. EventAt(j).timestamp \in Nat /\ now \in Nat
    BY EventAtType DEF StoreConsistent, StoreTypeOK
  <2>. QED BY <2>1, <2>2
<1>6. HistoryFaithful' BY DEF HistoryFaithful, EventAt, Identity
<1>. QED BY <1>1, <1>2, <1>3, <1>4, <1>5, <1>6

-----------------------------------------------------------------------------
(* Steps that append events n0..n-1 to a log of n0.                          *)

NewAt(i) ==
    /\ order'[i] \in EventId
    /\ order'[i] \in DOMAIN data'
    /\ EventAt(i)'.index = i
    /\ EventAt(i)'.timestamp = now
    /\ Addresses(order'[i], EventAt(i)')
    /\ EventAt(i)'.prev_hash = Links(i)'
    /\ EventAt(i)'.event_hash = Links(i + 1)'

OldKept ==
    \A i \in 0..(rs.total - 1) : /\ order'[i] = order[i]
                                 /\ order[i] \in DOMAIN data'
                                 /\ data'[order[i]] = data[order[i]]

Grows(n) ==
    /\ rs.total <= n /\ n <= rs.max
    /\ cfg' \in [max : Nat, total : Nat] /\ cfg'.total = n
    /\ rs' = [rs EXCEPT !.total = n]
    /\ DOMAIN order' = 0..(n - 1)
    /\ PartialMap(data', EventId, Event)
    /\ OldKept
    /\ \A i \in rs.total..(n - 1) : NewAt(i)
    /\ UNCHANGED <<now, versions, snaps, proposals>>

(* The links of a log that only grows stay.                                  *)
LEMMA OldLinks ==
    ASSUME StoreTypeOK, OldKept, NEW n \in 0..rs.total
    PROVE  Links(n)' = Links(n)
<1>1. ASSUME NEW k \in 1..n PROVE LinkAt(k - 1)' = LinkAt(k - 1)
  <2>1. k - 1 \in 0..(rs.total - 1) BY DEF StoreTypeOK
  <2>. QED BY <2>1 DEF OldKept, LinkAt, EventAt, Link
<1>. QED BY <1>1 DEF Links

(* Appending well-formed events keeps the store invariant.                   *)
LEMMA GrowthKeepsStore ==
    ASSUME StoreInv, NEW n \in Nat, Grows(n)
    PROVE  StoreInv'
<1>. USE DEF StoreInv
<1>t. rs.total \in Nat /\ rs.max \in Nat /\ now \in Nat BY DEF StoreTypeOK
<1>r. /\ rs' \in [max : Nat, total : Nat, paused : BOOLEAN]
      /\ rs'.total = n /\ rs'.max = rs.max
  BY <1>t DEF Grows, StoreTypeOK
<1>d. DOMAIN order' = 0..(n - 1) BY DEF Grows
<1>n. \A i \in DOMAIN order' :
        \/ i \in 0..(rs.total - 1)
        \/ i \in rs.total..(n - 1) /\ NewAt(i)
  BY <1>t, <1>d DEF Grows
<1>o. \A i \in 0..(rs.total - 1) :
        /\ order'[i] = order[i] /\ EventAt(i)' = EventAt(i)
        /\ order'[i] \in DOMAIN data'
        /\ i \in DOMAIN order
  BY DEF Grows, OldKept, EventAt, StoreConsistent
<1>1. StoreTypeOK'
  <2>1. \A i \in DOMAIN order' : order'[i] \in EventId
    BY <1>n, <1>o DEF NewAt, StoreTypeOK, PartialMap
  <2>2. PartialMap(order', Nat, EventId) BY <2>1, <1>d DEF PartialMap
  <2>. QED BY <2>2, <1>r DEF Grows, StoreTypeOK, PartialMap
<1>2. StoreConsistent'
  <2>1. ASSUME NEW i \in DOMAIN order'
        PROVE  /\ order'[i] \in DOMAIN data'
               /\ EventAt(i)'.index = i
               /\ Addresses(order'[i], EventAt(i)')
    BY <1>n, <1>o DEF NewAt, StoreConsistent
  <2>. QED BY <2>1, <1>r, <1>d DEF Grows, StoreConsistent
<1>3. HashCommitsToPrefix'
  <2>1. ASSUME NEW i \in DOMAIN order'
        PROVE  /\ EventAt(i)'.prev_hash = Links(i)'
               /\ EventAt(i)'.event_hash = Links(i + 1)'
    <3>1. CASE i \in 0..(rs.total - 1)
      <4>1. i \in 0..rs.total /\ i + 1 \in 0..rs.total BY <3>1, <1>t
      <4>2. Links(i)' = Links(i) /\ Links(i + 1)' = Links(i + 1)
        BY <4>1, OldLinks DEF Grows
      <4>. QED BY <3>1, <4>2, <1>o DEF HashCommitsToPrefix
    <3>2. CASE NewAt(i) BY <3>2 DEF NewAt
    <3>. QED BY <3>1, <3>2, <1>n
  <2>. QED BY <2>1 DEF HashCommitsToPrefix
<1>4. WithinGlobalMax' BY <1>r DEF WithinGlobalMax, Grows
<1>5. TimestampsOrdered'
  <2>1. ASSUME NEW i \in DOMAIN order', NEW j \in DOMAIN order', i <= j
        PROVE  /\ EventAt(i)'.timestamp <= EventAt(j)'.timestamp
               /\ EventAt(j)'.timestamp <= now
    <3>1. CASE i \in 0..(rs.total - 1) /\ j \in 0..(rs.total - 1)
      BY <2>1, <3>1, <1>o DEF TimestampsOrdered
    <3>2. CASE i \in 0..(rs.total - 1) /\ j \in rs.total..(n - 1) /\ NewAt(j)
      <4>1. EventAt(i).timestamp <= now BY <3>2, <1>o, <1>t DEF TimestampsOrdered
      <4>. QED BY <4>1, <3>2, <1>o, <1>t DEF NewAt
    <3>3. CASE i \in rs.total..(n - 1) /\ NewAt(i)
      <4>1. NewAt(j) BY <2>1, <3>3, <1>n, <1>t
      <4>. QED BY <4>1, <3>3, <1>t DEF NewAt
    <3>. QED BY <3>1, <3>2, <3>3, <1>n
  <2>. QED BY <2>1 DEF TimestampsOrdered, Grows
<1>6. HistoryFaithful'
  <2>1. \A i \in DOMAIN versions : i \in DOMAIN order' /\ EventAt(i)' = EventAt(i)
    BY <1>o, <1>t, <1>d DEF HistoryFaithful, StoreConsistent, Grows
  <2>. QED BY <2>1 DEF HistoryFaithful, Grows, Identity
<1>. QED BY <1>1, <1>2, <1>3, <1>4, <1>5, <1>6

(* An id computed from typed inputs.                                         *)
LEMMA EventIdType ==
    ASSUME NEW s \in Address, NEW t \in EventType, NEW m \in Metadata,
           NEW ts \in Nat, NEW i \in Nat, NEW h \in Handle
    PROVE  /\ compute_event_id(s, t, m, ts, i, h) \in EventId
           /\ compute_event_id(s, t, m, ts, i, h).index = i
           /\ \A e : /\ e.submitter = s /\ e.event_type = t /\ e.metadata = m
                     /\ e.timestamp = ts /\ e.index = i
                     => Addresses(compute_event_id(s, t, m, ts, i, h), e)
<1>1. SymbolPayload(t, h) \in EventType \cup Handle BY DEF SymbolPayload
<1>2. SymbolPayload(t, h) = t \/ t \in LongType BY DEF SymbolPayload
<1>. QED BY <1>1, <1>2 DEF compute_event_id, EventId, Addresses

(* log_event's storing path appends one well-formed event.                   *)
LEMMA StoreEventGrows ==
    ASSUME StoreInv, NEW s \in Address, NEW t \in EventType, NEW m \in Metadata,
           NEW cat \in Category, NEW h \in Handle, NEW key,
           rs.total < rs.max, StoreEvent(s, t, m, cat, h, key),
           UNCHANGED <<now, versions, snaps, proposals>>
    PROVE  \E n \in Nat : Grows(n)
<1>. USE DEF StoreInv
<1>0. PICK i \in Nat : i = rs.total BY DEF StoreTypeOK
<1>. DEFINE id == NextId(s, t, m, h)
            prev == PrevHash(i)
            e == NewEvent(s, t, m, cat, i, id, prev)
<1>1. /\ i \in Nat /\ i + 1 \in Nat /\ rs.max \in Nat /\ now \in Nat
      /\ cfg.total = i /\ i + 1 <= rs.max
      /\ i \in 0..i
  BY <1>0 DEF StoreTypeOK, StoreConsistent
<1>2. /\ order' = Put(order, i, id)
      /\ data' = Put(data, id, e)
      /\ cfg' = [cfg EXCEPT !.total = i + 1]
      /\ rs' = [rs EXCEPT !.total = i + 1]
  BY <1>1 DEF StoreEvent, Totals
<1>3. id \in EventId /\ id.index = i
  BY <1>1, EventIdType DEF NextId
<1>4. prev = Links(i) /\ prev \in [1..i -> LinkSet]
  BY <1>0, <1>1, PrevHashLinks, LinksType
<1>5. \A k \in 0..(i - 1) : order[k] # id /\ k # i /\ k \in DOMAIN order /\ order[k] \in DOMAIN data
  BY <1>0, <1>1, <1>3 DEF StoreConsistent, Addresses
<1>6. OldKept BY <1>0, <1>2, <1>5 DEF OldKept, Put
<1>7. order'[i] = id /\ data'[id] = e /\ EventAt(i)' = e /\ id \in DOMAIN data'
  BY <1>2 DEF Put, EventAt
<1>8. Links(i)' = Links(i) BY <1>0, <1>1, <1>6, OldLinks
<1>9. LinkAt(i)' = Link(id, i, now) /\ Link(id, i, now) \in LinkSet
  BY <1>1, <1>3, <1>7 DEF LinkAt, NewEvent, Link, LinkSet
<1>10. /\ Links(i + 1)' \in [1..(i + 1) -> LinkSet]
       /\ \A k \in 1..i : Links(i)[k] = Links(i + 1)'[k]
       /\ Links(i + 1)'[i + 1] = Link(id, i, now)
  <2>1. \A k \in 1..i : LinkAt(k - 1)' = Links(i)[k]
    BY <1>8 DEF Links
  <2>2. ASSUME NEW k \in 1..(i + 1) PROVE LinkAt(k - 1)' \in LinkSet
    <3>1. CASE k \in 1..i BY <3>1, <2>1, <1>4
    <3>2. CASE k = i + 1
      <4>1. k - 1 = i BY <3>2
      <4>. QED BY <4>1, <1>9
    <3>. QED BY <3>1, <3>2
  <2>. QED BY <2>1, <2>2, <1>1, <1>9 DEF Links
<1>11. Append(prev, Link(id, i, now)) = Links(i + 1)'
  BY <1>1, <1>4, <1>10, AppendRule
<1>12. e.event_hash = Links(i + 1)' /\ e.prev_hash = Links(i)'
  BY <1>4, <1>8, <1>11 DEF NewEvent, compute_event_hash
<1>13. e.prev_hash \in Hash /\ e.event_hash \in Hash
  BY <1>1, <1>4, <1>8, <1>10, <1>12, RuleIsSeq DEF Hash, LinkSet
<1>14. e \in Event BY <1>1, <1>13 DEF NewEvent, Event
<1>15. NewAt(i)
  <2>1. Addresses(id, e) BY <1>1, EventIdType DEF NextId, NewEvent
  <2>2. e.index = i /\ e.timestamp = now BY DEF NewEvent
  <2>. QED BY <2>1, <2>2, <1>3, <1>7, <1>12 DEF NewAt
<1>16. PartialMap(data', EventId, Event)
  BY <1>2, <1>3, <1>14 DEF PartialMap, Put, StoreTypeOK
<1>17. DOMAIN order' = 0..((i + 1) - 1)
  BY <1>0, <1>1, <1>2 DEF Put, StoreConsistent
<1>18. cfg' \in [max : Nat, total : Nat] /\ cfg'.total = i + 1
  BY <1>1, <1>2 DEF StoreTypeOK
<1>19. \A k \in i..((i + 1) - 1) : k = i BY <1>1
<1>20. Grows(i + 1)
  BY <1>0, <1>1, <1>2, <1>6, <1>15, <1>16, <1>17, <1>18, <1>19 DEF Grows
<1>. QED BY <1>1, <1>20

(* log_events appends one well-formed event per item.                        *)
LEMMA BatchGrows ==
    ASSUME StoreInv, NEW items \in Seq(Item), log_events(items)
    PROVE  \E n \in Nat : Grows(n)
<1>. USE DEF StoreInv
<1>0. PICK n0 \in Nat : n0 = rs.total BY DEF StoreTypeOK
<1>. DEFINE len == Len(items)
            n == n0 + len
            link(k) == Link(BatchId(items, k), BatchIndex(k), now)
<1>1. /\ len \in Nat /\ n \in Nat /\ now \in Nat /\ n0 <= n /\ n0 \in 0..n0
      /\ \A k \in 1..len : items[k] \in Item
  BY <1>0 DEF StoreTypeOK
<1>2. /\ data' = BatchData(items) /\ order' = BatchOrder(items)
      /\ cfg' = [max |-> rs.max, total |-> n] /\ rs' = [rs EXCEPT !.total = n]
      /\ n <= rs.max
      /\ UNCHANGED <<now, versions, snaps, proposals>>
  BY <1>0 DEF log_events, MayLogBatch, histVars, govVars
<1>3. ASSUME NEW k \in 1..len
      PROVE  /\ BatchIndex(k) = n0 + k - 1 /\ BatchIndex(k) \in n0..(n - 1)
             /\ BatchIndex(k) \in Nat
             /\ BatchIndex(k) - rs.total + 1 = k
             /\ BatchId(items, k) \in EventId
             /\ BatchId(items, k).index = BatchIndex(k)
             /\ link(k) \in LinkSet
             /\ Addresses(BatchId(items, k), BatchEvent(items, k))
  <2>1. /\ BatchIndex(k) = n0 + k - 1 /\ BatchIndex(k) \in n0..(n - 1)
        /\ BatchIndex(k) \in Nat
        /\ BatchIndex(k) - rs.total + 1 = k
    BY <1>0, <1>1 DEF BatchIndex
  <2>2. /\ items[k].submitter \in Address /\ items[k].event_type \in EventType
        /\ items[k].metadata \in Metadata /\ items[k].handle \in Handle
    BY <1>1 DEF Item
  <2>3. /\ BatchId(items, k) \in EventId
        /\ BatchId(items, k).index = BatchIndex(k)
    BY <2>1, <2>2, <1>1, EventIdType DEF BatchId
  <2>4. Addresses(BatchId(items, k), BatchEvent(items, k))
    BY <2>1, <2>2, <1>1, EventIdType, SMTT(30) DEF BatchId, BatchEvent
  <2>. QED BY <2>1, <2>3, <2>4, <1>1 DEF Link, LinkSet
<1>4. \A i \in 0..(n0 - 1) : /\ i \in DOMAIN order /\ order[i] \in DOMAIN data
                             /\ order[i].index = i
  BY <1>0 DEF StoreConsistent, Addresses
<1>5. OldKept
  <2>1. ASSUME NEW i \in 0..(n0 - 1)
        PROVE  order'[i] = order[i] /\ data'[order[i]] = data[order[i]]
               /\ order[i] \in DOMAIN data'
    <3>1. \A k \in 1..len : BatchId(items, k) # order[i] BY <1>3, <1>4
    <3>2. ~(i >= rs.total) BY <1>0
    <3>. QED BY <3>1, <3>2, <1>2, <1>4 DEF BatchOrder, BatchData
  <2>. QED BY <2>1, <1>0 DEF OldKept
<1>6. DOMAIN order' = 0..(n - 1)
  <2>1. ASSUME NEW i \in n0..(n - 1)
        PROVE  i - n0 + 1 \in 1..len /\ BatchIndex(i - n0 + 1) = i
    BY <1>0, <1>1, SMTT(30) DEF BatchIndex
  <2>2. {BatchIndex(k) : k \in 1..len} = n0..(n - 1) BY <2>1, <1>3
  <2>3. DOMAIN order = 0..(n0 - 1) BY <1>0 DEF StoreConsistent
  <2>4. DOMAIN order' = (0..(n0 - 1)) \cup (n0..(n - 1))
    BY <2>2, <2>3, <1>2 DEF BatchOrder
  <2>. QED BY <2>4, <1>1
<1>7. ASSUME NEW i \in n0..(n - 1)
      PROVE  LET k == i - n0 + 1
             IN  /\ k \in 1..len /\ BatchIndex(k) = i
                 /\ order'[i] = BatchId(items, k)
                 /\ order'[i] \in DOMAIN data'
                 /\ EventAt(i)' = BatchEvent(items, k)
                 /\ LinkAt(i)' = link(k)
  <2>. DEFINE k == i - n0 + 1
  <2>1. k \in 1..len /\ BatchIndex(k) = i BY <1>0, <1>1, SMTT(30) DEF BatchIndex
  <2>2. i \in DOMAIN order' /\ i >= rs.total BY <1>0, <1>1, <1>6
  <2>3. order'[i] = BatchId(items, k) BY <2>1, <2>2, <1>0, <1>2 DEF BatchOrder
  <2>4. BatchId(items, k).index - rs.total + 1 = k BY <2>1, <1>3
  <2>5. BatchId(items, k) \in {BatchId(items, j) : j \in 1..len} BY <2>1
  <2>6. /\ BatchId(items, k) \in DOMAIN data'
        /\ data'[BatchId(items, k)] = BatchEvent(items, k)
    BY <2>4, <2>5, <1>2 DEF BatchData
  <2>7. EventAt(i)' = BatchEvent(items, k) BY <2>3, <2>6 DEF EventAt
  <2>8. LinkAt(i)' = link(k) BY <2>1, <2>3, <2>7 DEF LinkAt, BatchEvent
  <2>. QED BY <2>1, <2>3, <2>6, <2>7, <2>8
<1>8. Links(n0)' = Links(n0) /\ PrevHash(n0) = Links(n0) /\ Links(n0) \in [1..n0 -> LinkSet]
  BY <1>0, <1>1, <1>5, OldLinks, PrevHashLinks, LinksType
<1>9. ASSUME NEW k \in 0..len
      PROVE  /\ BatchHash(items, k) = Links(n0 + k)'
             /\ Links(n0 + k)' \in [1..(n0 + k) -> LinkSet]
  <2>1. \A j \in 1..n0 : LinkAt(j - 1)' = Links(n0)[j] BY <1>8 DEF Links
  <2>2. ASSUME NEW j \in 1..k PROVE LinkAt((n0 + j) - 1)' = link(j)
    <3>1. (n0 + j) - 1 \in n0..(n - 1) /\ ((n0 + j) - 1) - n0 + 1 = j BY <1>1
    <3>. QED BY <3>1, <1>7
  <2>3. ASSUME NEW j \in 1..(n0 + k) PROVE LinkAt(j - 1)' \in LinkSet
    <3>1. CASE j \in 1..n0 BY <3>1, <2>1, <1>8
    <3>2. CASE j \notin 1..n0
      <4>1. j - n0 \in 1..k /\ j - n0 \in 1..len /\ n0 + (j - n0) = j BY <3>2, <1>1
      <4>2. LinkAt(j - 1)' = link(j - n0) BY <4>1, <2>2
      <4>. QED BY <4>1, <4>2, <1>3
    <3>. QED BY <3>1, <3>2
  <2>4. Links(n0 + k)' \in [1..(n0 + k) -> LinkSet] BY <2>3 DEF Links
  <2>5. \A j \in 1..n0 : Links(n0)[j] = Links(n0 + k)'[j] BY <2>1, <1>1 DEF Links
  <2>. DEFINE tail == [j \in 1..k |-> link(j)]
  <2>6. tail \in [1..k -> LinkSet] BY <1>1, <1>3
  <2>7. \A j \in 1..k : tail[j] = Links(n0 + k)'[n0 + j]
    BY <2>2, <1>1 DEF Links
  <2>8. Links(n0) \o tail = Links(n0 + k)'
    <3>1. k \in Nat /\ n0 \in Nat BY <1>1
    <3>2. Splits(Links(n0 + k)', Links(n0), tail, n0, k, LinkSet)
      BY <3>1, <2>4, <2>5, <2>6, <2>7, <1>8 DEF Splits
    <3>. QED BY <3>2, ConcatRule
  <2>. QED BY <2>4, <2>8, <1>0, <1>8 DEF BatchHash
<1>10. ASSUME NEW k \in 1..len
       PROVE  /\ BatchEvent(items, k) \in Event
              /\ BatchEvent(items, k).prev_hash = Links(n0 + (k - 1))'
              /\ BatchEvent(items, k).event_hash = Links(n0 + k)'
              /\ BatchEvent(items, k).index = BatchIndex(k)
              /\ BatchEvent(items, k).timestamp = now
  <2>1. k \in 0..len /\ k - 1 \in 0..len BY <1>1
  <2>2. /\ BatchHash(items, k) = Links(n0 + k)'
        /\ BatchHash(items, k - 1) = Links(n0 + (k - 1))'
        /\ BatchHash(items, k) \in [1..(n0 + k) -> LinkSet]
        /\ BatchHash(items, k - 1) \in [1..(n0 + (k - 1)) -> LinkSet]
    BY <2>1, <1>9
  <2>3. BatchHash(items, k) \in Hash /\ BatchHash(items, k - 1) \in Hash
    <3>1. n0 + k \in Nat /\ n0 + (k - 1) \in Nat BY <2>1, <1>1
    <3>2. BatchHash(items, k) \in Seq(LinkSet) BY <3>1, <2>2, RuleIsSeq
    <3>3. BatchHash(items, k - 1) \in Seq(LinkSet) BY <3>1, <2>2, RuleIsSeq
    <3>. QED BY <3>2, <3>3 DEF Hash, LinkSet
  <2>. QED BY <2>2, <2>3, <1>1, <1>3, TypesAssumption DEF BatchEvent, Event, Item
<1>11. ASSUME NEW i \in n0..(n - 1) PROVE NewAt(i)
  <2>. DEFINE k == i - n0 + 1
  <2>1. k \in 1..len /\ n0 + (k - 1) = i /\ n0 + k = i + 1 BY <1>1
  <2>2. /\ BatchIndex(k) = i /\ order'[i] = BatchId(items, k)
        /\ order'[i] \in DOMAIN data' /\ EventAt(i)' = BatchEvent(items, k)
    BY <1>7
  <2>3. /\ BatchEvent(items, k).prev_hash = Links(i)'
        /\ BatchEvent(items, k).event_hash = Links(i + 1)'
        /\ BatchEvent(items, k).index = i /\ BatchEvent(items, k).timestamp = now
    BY <2>1, <2>2, <1>10
  <2>4. BatchId(items, k) \in EventId /\ Addresses(BatchId(items, k), BatchEvent(items, k))
    BY <2>1, <1>3
  <2>. QED BY <2>2, <2>3, <2>4 DEF NewAt
<1>12. PartialMap(data', EventId, Event)
  <2>1. ASSUME NEW id \in DOMAIN data' PROVE id \in EventId /\ data'[id] \in Event
    <3>1. CASE \E k \in 1..len : id = BatchId(items, k)
      <4>1. PICK k \in 1..len : id = BatchId(items, k) BY <3>1
      <4>2. id \in EventId /\ id.index - rs.total + 1 = k BY <4>1, <1>3
      <4>3. data'[id] = BatchEvent(items, k) BY <4>1, <4>2, <1>2 DEF BatchData
      <4>. QED BY <4>2, <4>3, <1>10
    <3>2. CASE \A k \in 1..len : id # BatchId(items, k)
      <4>1. id \in DOMAIN data /\ data'[id] = data[id] BY <3>2, <1>2 DEF BatchData
      <4>. QED BY <4>1 DEF StoreTypeOK, PartialMap
    <3>. QED BY <3>1, <3>2
  <2>. QED BY <2>1 DEF PartialMap
<1>13. cfg' \in [max : Nat, total : Nat] /\ cfg'.total = n
  BY <1>1, <1>2 DEF StoreTypeOK
<1>14. Grows(n) BY <1>0, <1>1, <1>2, <1>5, <1>6, <1>11, <1>12, <1>13 DEF Grows
<1>. QED BY <1>1, <1>14

-----------------------------------------------------------------------------
(* Amendments.                                                               *)

(* An amendment of position i to e, which is the same event but for its      *)
(* metadata and hashes.                                                      *)
Amends(c, i, e, h) ==
    /\ c \in Address /\ h \in Handle /\ e \in Event
    /\ i \in 0..(rs.total - 1)
    /\ Identity(e) = Identity(EventAt(i))
    /\ IdOf(e, i, h) # order[i]
    /\ Amend(c, i, e, IdOf(e, i, h))

(* The id and the event an amendment stores.                                 *)
LEMMA AmendedEvent ==
    ASSUME StoreInv, NEW c, NEW i, NEW e, NEW h, Amends(c, i, e, h)
    PROVE  LET id  == IdOf(e, i, h)
               new == Rehashed(e, id, i)
           IN  /\ i \in Nat /\ i \in DOMAIN order
               /\ id \in EventId /\ id.index = i /\ Addresses(id, new)
               /\ new \in Event /\ Identity(new) = Identity(EventAt(i))
               /\ new.metadata = e.metadata /\ new.index = i
               /\ new.timestamp = EventAt(i).timestamp
               /\ new.prev_hash = Links(i)
               /\ new.event_hash = Append(Links(i), Link(id, i, new.timestamp))
               /\ Link(id, i, new.timestamp) \in LinkSet
<1>. USE DEF StoreInv
<1>. DEFINE id  == IdOf(e, i, h)
            new == Rehashed(e, id, i)
            link == Link(id, i, e.timestamp)
<1>1. /\ i \in 0..(rs.total - 1) /\ i \in Nat /\ i \in DOMAIN order /\ i \in 0..rs.total
      /\ EventAt(i).index = i /\ EventAt(i) \in Event
      /\ e \in Event /\ h \in Handle
  BY EventAtType DEF Amends, StoreTypeOK, StoreConsistent
<1>2. /\ e.index = i /\ e.timestamp = EventAt(i).timestamp
      /\ e.submitter \in Address /\ e.event_type \in EventType
      /\ e.metadata \in Metadata /\ e.timestamp \in Nat
  BY <1>1 DEF Amends, Identity, Event
<1>3. id \in EventId /\ id.index = i BY <1>1, <1>2, EventIdType DEF IdOf
<1>4. PrevHash(i) = Links(i) /\ Links(i) \in [1..i -> LinkSet]
  BY <1>1, PrevHashLinks, LinksType
<1>5. link \in LinkSet BY <1>1, <1>2, <1>3 DEF Link, LinkSet
<1>6. Links(i) \in Seq(LinkSet) BY <1>1, <1>4, RuleIsSeq
<1>7. Append(Links(i), link) \in Seq(LinkSet) BY <1>5, <1>6, AppendProperties
<1>8. /\ new = [e EXCEPT !.prev_hash = Links(i), !.event_hash = Append(Links(i), link)]
      /\ Links(i) \in Hash /\ Append(Links(i), link) \in Hash
  BY <1>4, <1>6, <1>7 DEF Rehashed, compute_event_hash, Hash, LinkSet
<1>9. /\ new \in Event /\ new.index = e.index /\ new.timestamp = e.timestamp
      /\ new.event_type = e.event_type /\ new.category = e.category
      /\ new.submitter = e.submitter /\ new.metadata = e.metadata
      /\ new.prev_hash = Links(i) /\ new.event_hash = Append(Links(i), link)
  <2>. HIDE DEF link
  <2>. QED BY <1>1, <1>8 DEF Event
<1>10. Identity(new) = Identity(EventAt(i)) BY <1>9 DEF Identity, Amends
<1>11. Addresses(id, new)
  <2>. HIDE DEF new
  <2>. QED BY <1>1, <1>2, <1>9, EventIdType DEF IdOf
<1>. QED BY <1>1, <1>2, <1>3, <1>5, <1>9, <1>10, <1>11

(* Every other position keeps its id, content and link; every position has   *)
(* the hashes of the new chain.                                              *)
LEMMA AmendedLog ==
    ASSUME StoreInv, NEW c, NEW i, NEW e, NEW h, Amends(c, i, e, h)
    PROVE  /\ DOMAIN order' = DOMAIN order
           /\ PartialMap(data', EventId, Event)
           /\ order'[i] = IdOf(e, i, h)
           /\ EventAt(i)' = Rehashed(e, IdOf(e, i, h), i)
           /\ \A k \in DOMAIN order :
                /\ order'[k] \in EventId /\ order'[k] \in DOMAIN data'
                /\ EventAt(k)'.index = k /\ Addresses(order'[k], EventAt(k)')
                /\ Identity(EventAt(k)') = Identity(EventAt(k))
                /\ EventAt(k)'.timestamp = EventAt(k).timestamp
                /\ k # i => /\ order'[k] = order[k]
                            /\ EventAt(k)'.metadata = EventAt(k).metadata
                /\ EventAt(k)'.prev_hash = Links(k)'
                /\ EventAt(k)'.event_hash = Links(k + 1)'
<1>. USE DEF StoreInv
<1>. DEFINE id  == IdOf(e, i, h)
            new == Rehashed(e, id, i)
            H   == new.event_hash
            link == Link(id, i, new.timestamp)
<1>1. /\ i \in Nat /\ i \in DOMAIN order
      /\ id \in EventId /\ id.index = i /\ Addresses(id, new)
      /\ new \in Event /\ Identity(new) = Identity(EventAt(i)) /\ new.index = i
      /\ new.timestamp = EventAt(i).timestamp
      /\ new.prev_hash = Links(i) /\ H = Append(Links(i), link)
      /\ link \in LinkSet
  BY AmendedEvent
<1>2. /\ data' = Put(Rewired(H, i), id, new)
      /\ order' = [order EXCEPT ![i] = id]
  BY DEF Amends, Amend
<1>. HIDE DEF id, new, H, link
<1>3. /\ rs.total \in Nat /\ i < rs.total /\ DOMAIN order = 0..(rs.total - 1)
  BY <1>1 DEF StoreTypeOK, StoreConsistent
<1>4. \A k \in DOMAIN order :
        /\ k \in Nat /\ k \in 0..(rs.total - 1)
        /\ order[k] \in EventId /\ order[k] \in DOMAIN data /\ order[k].index = k
        /\ EventAt(k) \in Event /\ EventAt(k).index = k /\ data[order[k]] = EventAt(k)
        /\ Addresses(order[k], EventAt(k))
        /\ LinkAt(k) \in LinkSet
        /\ EventAt(k).prev_hash = Links(k) /\ EventAt(k).event_hash = Links(k + 1)
  BY <1>3, EventAtType DEF StoreConsistent, Addresses, HashCommitsToPrefix, EventAt
<1>5. DOMAIN order' = DOMAIN order /\ order'[i] = id
      /\ \A k \in DOMAIN order : k # i => order'[k] = order[k]
  BY <1>1, <1>2
<1>6. /\ DOMAIN data' = DOMAIN data \cup {id} /\ data'[id] = new
      /\ \A x \in DOMAIN data : x # id => data'[x] = Rewired(H, i)[x]
  BY <1>2 DEF Put, Rewired
<1>7. EventAt(i)' = new BY <1>5, <1>6 DEF EventAt
(* Links of the new log.                                                     *)
<1>8. ASSUME NEW k \in DOMAIN order, k # i
      PROVE  /\ EventAt(k)' = Rewired(H, i)[order[k]]
             /\ k < i => EventAt(k)' = EventAt(k)
             /\ k > i => EventAt(k)' = [EventAt(k) EXCEPT !.prev_hash = ChainFrom(H, i, k - 1),
                                                          !.event_hash = ChainFrom(H, i, k)]
             /\ EventAt(k)'.timestamp = EventAt(k).timestamp
             /\ LinkAt(k)' = LinkAt(k)
  <2>1. order[k] # id BY <1>1, <1>4, <1>8
  <2>2. EventAt(k)' = Rewired(H, i)[order[k]]
    BY <2>1, <1>4, <1>5, <1>6, <1>8 DEF EventAt
  <2>3. CASE k < i
    <3>1. k \notin (i + 1)..(rs.total - 1) BY <2>3, <1>1, <1>3
    <3>2. EventAt(k)' = EventAt(k) BY <2>2, <3>1, <1>4 DEF Rewired
    <3>. QED BY <2>2, <2>3, <3>2, <1>1, <1>3, <1>4, <1>5, <1>8 DEF LinkAt
  <2>4. CASE k > i
    <3>1. k \in (i + 1)..(rs.total - 1) BY <2>4, <1>1, <1>3
    <3>2. EventAt(k)' = [EventAt(k) EXCEPT !.prev_hash = ChainFrom(H, i, k - 1),
                                           !.event_hash = ChainFrom(H, i, k)]
      BY <2>2, <3>1, <1>4 DEF Rewired
    <3>3. EventAt(k)'.timestamp = EventAt(k).timestamp BY <3>2, <1>4 DEF Event
    <3>. QED BY <2>2, <2>4, <3>2, <3>3, <1>1, <1>3, <1>4, <1>5, <1>8 DEF LinkAt
  <2>. QED BY <2>3, <2>4, <1>1, <1>3, <1>8
<1>9. LinkAt(i)' = link BY <1>1, <1>5, <1>7 DEF LinkAt, link
<1>10. ASSUME NEW n \in 0..rs.total
       PROVE  Links(n)' \in [1..n -> LinkSet] /\ (n <= i => Links(n)' = Links(n))
  <2>1. ASSUME NEW k \in 1..n
        PROVE  LinkAt(k - 1)' \in LinkSet /\ (n <= i => LinkAt(k - 1)' = LinkAt(k - 1))
    <3>1. k - 1 \in DOMAIN order BY <1>3
    <3>2. CASE k - 1 = i
      <4>1. ~(n <= i) BY <3>2, <1>1, <1>3
      <4>. QED BY <4>1, <3>2, <1>1, <1>9
    <3>3. CASE k - 1 # i BY <3>1, <3>3, <1>4, <1>8
    <3>. QED BY <3>2, <3>3
  <2>. QED BY <2>1 DEF Links
(* Hashes of the new log.                                                    *)
<1>11. H = Links(i + 1)'
  <2>1. i \in 0..rs.total /\ i + 1 \in 0..rs.total BY <1>1, <1>3
  <2>2. Links(i)' = Links(i) /\ Links(i)' \in [1..i -> LinkSet]
        /\ Links(i + 1)' \in [1..(i + 1) -> LinkSet]
    BY <2>1, <1>1, <1>10
  <2>3. \A k \in 1..i : Links(i)'[k] = Links(i + 1)'[k] BY <1>1 DEF Links
  <2>4. Links(i + 1)'[i + 1] = link BY <1>1, <1>9 DEF Links
  <2>. QED BY <2>2, <2>3, <2>4, <1>1, AppendRule
<1>12. ASSUME NEW j \in i..(rs.total - 1)
       PROVE  ChainFrom(H, i, j) = Links(j + 1)' /\ ChainFrom(H, i, j) \in Hash
  <2>1. /\ j \in Nat /\ i + 1 \in 0..rs.total /\ j + 1 \in 0..rs.total
        /\ j - i \in Nat /\ i + 1 \in Nat /\ (i + 1) + (j - i) = j + 1
    BY <1>1, <1>3
  <2>2. ASSUME NEW n \in 1..(j - i)
        PROVE  /\ Link(order[i + n], i + n, EventAt(i + n).timestamp) = LinkAt(i + n)'
               /\ LinkAt(i + n)' \in LinkSet
    <3>1. i + n \in DOMAIN order /\ i + n # i BY <2>1, <1>1, <1>3
    <3>. QED BY <3>1, <1>4, <1>8 DEF LinkAt
  <2>. DEFINE tail == [n \in 1..(j - i) |-> Link(order[i + n], i + n, EventAt(i + n).timestamp)]
  <2>3. tail \in [1..(j - i) -> LinkSet] BY <2>2
  <2>4. ASSUME NEW n \in 1..(j - i) PROVE tail[n] = Links(j + 1)'[(i + 1) + n]
    <3>1. (i + 1) + n \in 1..(j + 1) /\ ((i + 1) + n) - 1 = i + n BY <2>1, <1>1
    <3>2. Links(j + 1)'[(i + 1) + n] = LinkAt(i + n)' BY <3>1 DEF Links
    <3>. QED BY <3>2, <2>2
  <2>5. /\ Links(i + 1)' \in [1..(i + 1) -> LinkSet]
        /\ Links(j + 1)' \in [1..(j + 1) -> LinkSet]
    BY <2>1, <1>10
  <2>6. \A n \in 1..(i + 1) : Links(i + 1)'[n] = Links(j + 1)'[n] BY <2>1 DEF Links
  <2>7. Splits(Links(j + 1)', Links(i + 1)', tail, i + 1, j - i, LinkSet)
    <3>. HIDE DEF tail
    <3>. QED BY <2>1, <2>3, <2>4, <2>5, <2>6 DEF Splits
  <2>8. Links(i + 1)' \o tail = Links(j + 1)' BY <2>7, ConcatRule
  <2>9. Links(j + 1)' \in Seq(LinkSet) BY <2>1, <2>5, RuleIsSeq
  <2>. QED BY <2>8, <2>9, <1>11 DEF ChainFrom, Hash, LinkSet
<1>13. ASSUME NEW k \in DOMAIN order, k # i
       PROVE  /\ Identity(EventAt(k)') = Identity(EventAt(k))
              /\ EventAt(k)'.metadata = EventAt(k).metadata
              /\ EventAt(k)' \in Event
              /\ EventAt(k)'.prev_hash = Links(k)'
              /\ EventAt(k)'.event_hash = Links(k + 1)'
  <2>1. CASE k < i
    <3>1. k \in 0..rs.total /\ k + 1 \in 0..rs.total /\ k <= i /\ k + 1 <= i
      BY <2>1, <1>1, <1>3
    <3>2. Links(k)' = Links(k) /\ Links(k + 1)' = Links(k + 1) BY <3>1, <1>10
    <3>. QED BY <2>1, <3>2, <1>4, <1>8, <1>13
  <2>2. CASE k > i
    <3>1. /\ k \in i..(rs.total - 1) /\ k - 1 \in i..(rs.total - 1) /\ (k - 1) + 1 = k
      BY <2>2, <1>1, <1>3
    <3>2. /\ ChainFrom(H, i, k - 1) = Links(k)' /\ ChainFrom(H, i, k) = Links(k + 1)'
          /\ ChainFrom(H, i, k - 1) \in Hash /\ ChainFrom(H, i, k) \in Hash
      BY <3>1, <1>12
    <3>3. EventAt(k)' = [EventAt(k) EXCEPT !.prev_hash = ChainFrom(H, i, k - 1),
                                           !.event_hash = ChainFrom(H, i, k)]
      BY <2>2, <1>8, <1>13
    <3>4. EventAt(k) \in Event BY <1>4
    <3>5. /\ EventAt(k)' \in Event
          /\ EventAt(k)'.prev_hash = ChainFrom(H, i, k - 1)
          /\ EventAt(k)'.event_hash = ChainFrom(H, i, k)
      BY <3>2, <3>3, <3>4 DEF Event
    <3>6. /\ Identity(EventAt(k)') = Identity(EventAt(k))
          /\ EventAt(k)'.metadata = EventAt(k).metadata
      BY <3>3, <3>4 DEF Event, Identity
    <3>. QED BY <3>2, <3>5, <3>6
  <2>. QED BY <2>1, <2>2, <1>1, <1>3, <1>13
<1>14. PartialMap(data', EventId, Event)
  <2>1. ASSUME NEW x \in DOMAIN data' PROVE x \in EventId /\ data'[x] \in Event
    <3>1. CASE x = id BY <3>1, <1>1, <1>6
    <3>2. CASE x # id
      <4>1. x \in DOMAIN data /\ data'[x] = Rewired(H, i)[x] BY <3>2, <1>6
      <4>2. x \in EventId /\ data[x] \in Event BY <4>1 DEF StoreTypeOK, PartialMap
      <4>3. CASE x.index \in (i + 1)..(rs.total - 1) /\ order[x.index] = x
        <5>1. x.index \in DOMAIN order /\ x.index # i BY <4>3, <1>1, <1>3
        <5>2. data'[x] = EventAt(x.index)' BY <4>1, <4>3, <5>1, <1>8
        <5>. QED BY <4>2, <5>1, <5>2, <1>13
      <4>4. CASE ~(x.index \in (i + 1)..(rs.total - 1) /\ order[x.index] = x)
        BY <4>1, <4>2, <4>4 DEF Rewired
      <4>. QED BY <4>3, <4>4
    <3>. QED BY <3>1, <3>2
  <2>. QED BY <2>1 DEF PartialMap
<1>15. ASSUME NEW k \in DOMAIN order, k # i
       PROVE  /\ order'[k] \in EventId /\ order'[k] \in DOMAIN data'
              /\ EventAt(k)'.index = k /\ Addresses(order'[k], EventAt(k)')
              /\ EventAt(k)'.timestamp = EventAt(k).timestamp
  BY <1>4, <1>5, <1>6, <1>13, <1>15 DEF Identity, Addresses
<1>16. /\ order'[i] \in EventId /\ order'[i] \in DOMAIN data'
       /\ EventAt(i)'.index = i /\ Addresses(order'[i], EventAt(i)')
       /\ Identity(EventAt(i)') = Identity(EventAt(i))
       /\ EventAt(i)'.timestamp = EventAt(i).timestamp
       /\ EventAt(i)'.prev_hash = Links(i)'
       /\ EventAt(i)'.event_hash = Links(i + 1)'
  <2>1. i \in 0..rs.total /\ i <= i BY <1>1, <1>3
  <2>2. Links(i)' = Links(i) BY <2>1, <1>10
  <2>. QED BY <2>2, <1>1, <1>5, <1>6, <1>7, <1>11 DEF H
<1>17. EventAt(i)' = Rehashed(e, IdOf(e, i, h), i) /\ order'[i] = IdOf(e, i, h)
  BY <1>5, <1>7 DEF new, id
<1>. QED BY <1>5, <1>13, <1>14, <1>15, <1>16, <1>17

(* The history of a stored event, recorded or implied.                       *)
LEMMA HistoryType ==
    ASSUME StoreInv, NEW i \in DOMAIN order
    PROVE  LET hist == get_event_history(i)
           IN  /\ hist \in Seq(Version) /\ Len(hist) \in Nat /\ Len(hist) > 0
               /\ \A v \in 1..Len(hist) : /\ hist[v].data \in Event
                                          /\ Identity(hist[v].data) = Identity(EventAt(i))
               /\ hist[Len(hist)].data.metadata = EventAt(i).metadata
<1>. USE DEF StoreInv
<1>1. CASE i \in DOMAIN versions
  <2>1. versions[i] \in Seq(Version) BY <1>1 DEF StoreTypeOK, PartialMap
  <2>2. ASSUME NEW v \in 1..Len(versions[i]) PROVE versions[i][v].data \in Event
    <3>1. versions[i][v] \in Version BY <2>1
    <3>. QED BY <3>1 DEF Version
  <2>. QED BY <1>1, <2>1, <2>2 DEF get_event_history, HistoryFaithful
<1>2. CASE i \notin DOMAIN versions
  <2>. DEFINE first == [data |-> EventAt(i), updated_at |-> EventAt(i).timestamp,
                        updated_by |-> EventAt(i).submitter]
  <2>1. i \in 0..(rs.total - 1) BY DEF StoreConsistent
  <2>2. EventAt(i) \in Event BY <2>1, EventAtType
  <2>3. first \in Version BY <2>2 DEF Version, Event
  <2>4. first.data = EventAt(i) OBVIOUS
  <2>5. get_event_history(i) = <<first>> BY <1>2 DEF get_event_history
  <2>. HIDE DEF first
  <2>6. /\ <<first>> \in Seq(Version) /\ Len(<<first>>) = 1
        /\ \A v \in 1..Len(<<first>>) : <<first>>[v] = first
    BY <2>3
  <2>. QED BY <2>2, <2>4, <2>5, <2>6
<1>. QED BY <1>1, <1>2

(* The frame of an amendment: what update_event, rollback_event and an       *)
(* executed RollbackEvent proposal leave alone.                              *)
AmendFrame ==
    /\ UNCHANGED <<now, cfg, rs, snaps>>
    /\ proposals' \in Seq(Proposal)

(* The amended event's history gains exactly its new version.                *)
LEMMA AmendedHistory ==
    ASSUME StoreInv, NEW c, NEW i, NEW e, NEW h, Amends(c, i, e, h)
    PROVE  LET hist == get_event_history(i)
               new  == Rehashed(e, IdOf(e, i, h), i)
           IN  /\ versions' = Put(versions, i, Append(hist, VersionOf(c, new)))
               /\ Append(hist, VersionOf(c, new)) \in Seq(Version)
               /\ Len(Append(hist, VersionOf(c, new))) = Len(hist) + 1
               /\ \A v \in 1..Len(hist) : Append(hist, VersionOf(c, new))[v] = hist[v]
               /\ Append(hist, VersionOf(c, new))[Len(hist) + 1].data = new
<1>. DEFINE hist == get_event_history(i)
            new  == Rehashed(e, IdOf(e, i, h), i)
            ver  == VersionOf(c, new)
<1>1. i \in DOMAIN order /\ new \in Event BY AmendedEvent
<1>2. hist \in Seq(Version) BY <1>1, HistoryType
<1>3. ver \in Version /\ ver.data = new
  BY <1>1 DEF VersionOf, Version, Amends, StoreInv, StoreTypeOK
<1>4. versions' = Put(versions, i, Append(hist, ver)) BY DEF Amends, Amend, HistoryWith
<1>. HIDE DEF hist, new, ver
<1>5. /\ Append(hist, ver) \in Seq(Version) /\ Len(Append(hist, ver)) = Len(hist) + 1
      /\ \A v \in 1..Len(hist) : Append(hist, ver)[v] = hist[v]
      /\ Append(hist, ver)[Len(hist) + 1] = ver
  BY <1>2, <1>3, AppendProperties
<1>. QED BY <1>3, <1>4, <1>5 DEF hist, new, ver

(* Amendments keep the store invariant.                                      *)
LEMMA AmendmentKeepsStore ==
    ASSUME StoreInv, AmendFrame, NEW c, NEW i, NEW e, NEW h, Amends(c, i, e, h)
    PROVE  StoreInv'
<1>. DEFINE new  == Rehashed(e, IdOf(e, i, h), i)
            hist == get_event_history(i)
            hist2 == Append(hist, VersionOf(c, new))
<1>1. /\ DOMAIN order' = DOMAIN order
      /\ PartialMap(data', EventId, Event)
      /\ EventAt(i)' = new
      /\ \A k \in DOMAIN order :
           /\ order'[k] \in EventId /\ order'[k] \in DOMAIN data'
           /\ EventAt(k)'.index = k /\ Addresses(order'[k], EventAt(k)')
           /\ Identity(EventAt(k)') = Identity(EventAt(k))
           /\ EventAt(k)'.timestamp = EventAt(k).timestamp
           /\ k # i => EventAt(k)'.metadata = EventAt(k).metadata
           /\ EventAt(k)'.prev_hash = Links(k)'
           /\ EventAt(k)'.event_hash = Links(k + 1)'
  BY AmendedLog
<1>2. i \in DOMAIN order /\ i \in Nat /\ Identity(new) = Identity(EventAt(i)) BY AmendedEvent
<1>3. /\ versions' = Put(versions, i, hist2)
      /\ hist2 \in Seq(Version) /\ Len(hist2) = Len(hist) + 1
      /\ \A v \in 1..Len(hist) : hist2[v] = hist[v]
      /\ hist2[Len(hist) + 1].data = new
  BY AmendedHistory
<1>4. /\ Len(hist) \in Nat /\ Len(hist) > 0
      /\ \A v \in 1..Len(hist) : Identity(hist[v].data) = Identity(EventAt(i))
  BY <1>2, HistoryType
<1>. HIDE DEF new, hist, hist2
<1>. USE DEF StoreInv, AmendFrame
<1>5. StoreTypeOK'
  <2>1. PartialMap(order', Nat, EventId) BY <1>1 DEF PartialMap, StoreTypeOK
  <2>2. PartialMap(versions', Nat, Seq(Version))
    BY <1>2, <1>3 DEF PartialMap, Put, StoreTypeOK
  <2>. QED BY <2>1, <2>2, <1>1 DEF StoreTypeOK, PartialMap
<1>6. StoreConsistent' BY <1>1 DEF StoreConsistent
<1>7. HashCommitsToPrefix' BY <1>1 DEF HashCommitsToPrefix
<1>8. WithinGlobalMax' BY DEF WithinGlobalMax
<1>9. TimestampsOrdered' BY <1>1 DEF TimestampsOrdered
<1>10. HistoryFaithful'
  <2>1. ASSUME NEW k \in DOMAIN versions', k # i
        PROVE  /\ k \in DOMAIN order' /\ Len(versions'[k]) > 1
               /\ versions'[k][Len(versions'[k])].data.metadata = EventAt(k)'.metadata
               /\ \A v \in DOMAIN versions'[k] :
                    Identity(versions'[k][v].data) = Identity(EventAt(k)')
    <3>1. k \in DOMAIN versions /\ versions'[k] = versions[k] BY <2>1, <1>3 DEF Put
    <3>. QED BY <2>1, <3>1, <1>1 DEF HistoryFaithful
  <2>2. /\ i \in DOMAIN order' /\ Len(versions'[i]) > 1
        /\ versions'[i][Len(versions'[i])].data.metadata = EventAt(i)'.metadata
        /\ \A v \in DOMAIN versions'[i] :
             Identity(versions'[i][v].data) = Identity(EventAt(i)')
    <3>1. versions'[i] = hist2 BY <1>3 DEF Put
    <3>2. DOMAIN hist2 = 1..(Len(hist) + 1) BY <1>3
    <3>3. \A v \in 1..(Len(hist) + 1) : v \in 1..Len(hist) \/ v = Len(hist) + 1 BY <1>4
    <3>. QED BY <3>1, <3>2, <3>3, <1>1, <1>2, <1>3, <1>4
  <2>3. \A k \in DOMAIN versions' : k # i \/ k = i OBVIOUS
  <2>. QED BY <2>1, <2>2, <2>3 DEF HistoryFaithful
<1>. QED BY <1>5, <1>6, <1>7, <1>8, <1>9, <1>10

-----------------------------------------------------------------------------
(* Every step of the contract is quiet, grows the log, or amends one event.  *)

Amendment == /\ \E c, i, e, h : Amends(c, i, e, h)
             /\ AmendFrame

Step == Quiet \/ (\E n \in Nat : Grows(n)) \/ Amendment

storeVars == <<now, order, data, cfg, rs, versions, snaps, proposals>>

(* A step that changes no part of the store is quiet.                        *)
LEMMA StillIsQuiet ==
    ASSUME StoreInv, UNCHANGED storeVars
    PROVE  Quiet
BY DEF StoreInv, StoreTypeOK, WithinGlobalMax, storeVars, Quiet

(* log_event and its variants.                                               *)
LEMMA LogStep ==
    ASSUME StoreInv, NEW s \in Address, NEW t \in EventType, NEW m \in Metadata,
           NEW cat \in Category, NEW force, NEW h \in Handle, NEW key,
           log_event_with_hierarchy(s, t, m, cat, force, h, key),
           UNCHANGED <<now, versions, snaps, proposals>>
    PROVE  Step
<1>1. rs.total < rs.max BY DEF log_event_with_hierarchy, MayLog
<1>2. CASE ReturnExisting
  <2>1. UNCHANGED storeVars BY <1>2 DEF ReturnExisting, storeVars
  <2>. QED BY <2>1, StillIsQuiet DEF Step
<1>3. CASE StoreEvent(s, t, m, cat, h, key)
  BY <1>1, <1>3, StoreEventGrows DEF Step
<1>. QED BY <1>2, <1>3 DEF log_event_with_hierarchy

(* The shared end of update_event and rollback_event.                        *)
LEMMA AmendStep ==
    ASSUME StoreInv, AmendFrame, NEW c \in Address, NEW i \in 0..(rs.total - 1),
           NEW e \in Event, NEW h \in Handle, Identity(e) = Identity(EventAt(i)),
           AmendIfNew(c, i, e, h)
    PROVE  Step
<1>1. CASE UNCHANGED <<versions, data, order>>
  BY <1>1 DEF Step, Quiet, AmendFrame, StoreInv, StoreTypeOK, WithinGlobalMax
<1>2. CASE IdOf(e, i, h) # order[i] /\ Amend(c, i, e, IdOf(e, i, h))
  <2>1. Amends(c, i, e, h) BY <1>2 DEF Amends
  <2>. QED BY <2>1 DEF Step, Amendment
<1>. QED BY <1>1, <1>2 DEF AmendIfNew

(* update_event replaces the metadata only.                                  *)
LEMMA UpdateStep ==
    ASSUME StoreInv, AmendFrame, NEW c \in Address, NEW i \in DOMAIN order,
           NEW m \in Metadata, NEW h \in Handle, UpdateEffect(c, i, m, h)
    PROVE  Step
<1>1. i \in 0..(rs.total - 1) BY DEF StoreInv, StoreConsistent
<1>2. EventAt(i) \in Event BY <1>1, EventAtType DEF StoreInv
<1>3. Updated(i, m) \in Event /\ Identity(Updated(i, m)) = Identity(EventAt(i))
  BY <1>2 DEF Updated, Event, Identity
<1>4. AmendIfNew(c, i, Updated(i, m), h) BY DEF UpdateEffect
<1>. HIDE DEF Updated
<1>. QED BY <1>1, <1>3, <1>4, AmendStep

(* rollback_event restores a version of the same event.                      *)
LEMMA RollbackStep ==
    ASSUME StoreInv, AmendFrame, NEW c \in Address, NEW i \in Nat, NEW target \in Nat,
           NEW h \in Handle, RollbackEffect(c, i, target, h)
    PROVE  Step
<1>1. i \in 0..(rs.total - 1) /\ i \in DOMAIN order
  BY DEF RollbackEffect, StoreInv, StoreConsistent, StoreTypeOK
<1>2. Len(get_event_history(i)) \in Nat BY <1>1, HistoryType
<1>3. target + 1 \in 1..Len(get_event_history(i)) BY <1>2 DEF RollbackEffect
<1>4. Restored(i, target) \in Event /\ Identity(Restored(i, target)) = Identity(EventAt(i))
  BY <1>1, <1>3, HistoryType DEF Restored
<1>5. AmendIfNew(c, i, Restored(i, target), h) BY DEF RollbackEffect
<1>. QED BY <1>1, <1>4, <1>5, AmendStep

(* Proposals: submitting and approving are quiet; executing amends an event  *)
(* or changes settings.                                                      *)
LEMMA ProposalStep ==
    ASSUME StoreInv, ProposalCalls
    PROVE  Step
<1>. USE DEF StoreInv
<1>0. proposals \in Seq(Proposal) BY DEF StoreTypeOK
<1>1. ASSUME NEW c \in Address, NEW a \in ProposalActions, NEW ttl \in Ttl,
             submit_proposal(c, a, ttl)
      PROVE  Step
  <2>. DEFINE p == [proposer |-> c, action |-> a, approvals |-> <<c>>,
                    expires_at |-> now + ttl, executed |-> FALSE]
  <2>1. a \in ProposalAction /\ now + ttl \in Nat
    BY InputsAssumption DEF StoreTypeOK
  <2>2. <<c>> \in Seq(Address) OBVIOUS
  <2>3. p \in Proposal BY <2>1, <2>2 DEF Proposal
  <2>4. proposals' = Append(proposals, p) BY <1>1 DEF submit_proposal
  <2>5. proposals' \in Seq(Proposal)
    <3>. HIDE DEF p
    <3>. QED BY <2>3, <2>4, <1>0, AppendProperties
  <2>6. UNCHANGED <<now, order, data, cfg, rs, versions, snaps>>
    BY <1>1 DEF submit_proposal, logVars, histVars
  <2>. QED BY <2>5, <2>6 DEF Step, Quiet, StoreTypeOK, WithinGlobalMax
<1>2. ASSUME NEW c \in Address, NEW p \in DOMAIN proposals, approve_proposal(c, p)
      PROVE  Step
  <2>1. proposals[p] \in Proposal BY <1>0
  <2>2. proposals[p].approvals \in Seq(Address) BY <2>1 DEF Proposal
  <2>3. Append(proposals[p].approvals, c) \in Seq(Address) BY <2>2, AppendProperties
  <2>4. [proposals[p] EXCEPT !.approvals = Append(proposals[p].approvals, c)] \in Proposal
    BY <2>1, <2>3 DEF Proposal
  <2>5. proposals' = [proposals EXCEPT ![p] =
                        [proposals[p] EXCEPT !.approvals = Append(proposals[p].approvals, c)]]
    BY <1>2 DEF approve_proposal
  <2>6. proposals' \in Seq(Proposal) BY <2>4, <2>5, <1>0
  <2>7. UNCHANGED <<now, order, data, cfg, rs, versions, snaps>>
    BY <1>2 DEF approve_proposal, logVars, histVars
  <2>. QED BY <2>6, <2>7 DEF Step, Quiet, StoreTypeOK, WithinGlobalMax
<1>3. ASSUME NEW c \in Address, NEW p \in DOMAIN proposals, NEW h \in Handle,
             execute_proposal(c, p, h)
      PROVE  Step
  <2>. DEFINE a == proposals[p].action
  <2>1. proposals[p] \in Proposal BY <1>0
  <2>2. a \in ProposalAction BY <2>1 DEF Proposal
  <2>3. [proposals[p] EXCEPT !.executed = TRUE] \in Proposal BY <2>1 DEF Proposal
  <2>4. proposals' = [proposals EXCEPT ![p] = [proposals[p] EXCEPT !.executed = TRUE]]
    BY <1>3 DEF execute_proposal
  <2>5. proposals' \in Seq(Proposal) BY <2>3, <2>4, <1>0
  <2>6. UNCHANGED <<now, rs, snaps>> /\ cfg' = ConfigAfter(a)
    BY <1>3 DEF execute_proposal
  <2>7. CASE a.kind = "RollbackEvent"
    <3>1. a.index \in Nat /\ a.target \in Nat BY <2>2, <2>7 DEF ProposalAction
    <3>2. AmendFrame BY <2>5, <2>6, <2>7 DEF AmendFrame, ConfigAfter
    <3>3. RollbackEffect(c, a.index, a.target, h) BY <1>3, <2>7 DEF execute_proposal
    <3>. HIDE DEF a
    <3>. QED BY <3>1, <3>2, <3>3, RollbackStep
  <2>8. CASE a.kind # "RollbackEvent"
    <3>1. UNCHANGED <<versions, data, order>> BY <1>3, <2>8 DEF execute_proposal
    <3>2. cfg' \in [max : Nat, total : Nat] /\ cfg'.total = cfg.total
      <4>1. CASE a.kind = "SetGlobalMaxLogs"
        <5>1. a.value \in Nat BY <2>2, <4>1 DEF ProposalAction
        <5>. QED BY <4>1, <5>1, <2>6 DEF ConfigAfter, StoreTypeOK
      <4>2. CASE a.kind # "SetGlobalMaxLogs" BY <4>2, <2>6 DEF ConfigAfter, StoreTypeOK
      <4>. QED BY <4>1, <4>2
    <3>. HIDE DEF a
    <3>. QED BY <3>1, <3>2, <2>5, <2>6 DEF Step, Quiet, StoreTypeOK, WithinGlobalMax
  <2>. QED BY <2>7, <2>8
<1>. QED BY <1>1, <1>2, <1>3 DEF ProposalCalls

(* The entry points that touch nothing of the store but its maximum.         *)
LEMMA SettingStep ==
    ASSUME StoreInv, NonceCalls \/ AccessCalls \/ LimitCalls \/ OwnerCalls \/ EvictTemporary
    PROVE  Step
<1>. USE DEF storeVars, logVars, extraVars, histVars, govVars
<1>1. CASE NonceCalls
  <2>1. UNCHANGED storeVars
    BY <1>1 DEF NonceCalls, set_submitter_nonce_config, reset_submitter_nonce,
                set_default_nonce_config
  <2>. QED BY <2>1, StillIsQuiet DEF Step
<1>2. CASE AccessCalls
  <2>1. UNCHANGED storeVars
    BY <1>2 DEF AccessCalls, AccessOnly, pause, unpause, block_submitter,
                unblock_submitter, enable_allowlist_mode, disable_allowlist_mode,
                allow_submitter, remove_submitter_from_allowlist, set_low_cost_mode
  <2>. QED BY <2>1, StillIsQuiet DEF Step
<1>3. CASE LimitCalls
  <2>1. ASSUME NEW c \in Address, NEW n \in LogLimit, set_global_max_logs(c, n)
        PROVE  Step
    <3>1. n \in Nat BY InputsAssumption
    <3>. QED BY <2>1, <3>1 DEF set_global_max_logs, Step, Quiet, StoreInv, StoreTypeOK
  <2>2. CASE \A c \in Address, n \in LogLimit : ~set_global_max_logs(c, n)
    <3>1. UNCHANGED storeVars
      BY <1>3, <2>2 DEF LimitCalls, LimitsOnly, DedupOnly, set_metadata_max_size,
           set_submitter_rate_limit, compact_storage, set_dedup_policy, set_event_max_logs,
           remove_event_cap, set_event_metadata_max_size, set_metadata_schema,
           set_dedup_policy_for_type
    <3>. QED BY <3>1, StillIsQuiet DEF Step
  <2>. QED BY <2>1, <2>2
<1>4. CASE OwnerCalls
  <2>1. UNCHANGED storeVars
    BY <1>4 DEF OwnerCalls, AuthOnly, set_required_signatures, enable_rbac,
                transfer_ownership, add_owner, remove_owner, set_role
  <2>. QED BY <2>1, StillIsQuiet DEF Step
<1>5. CASE EvictTemporary
  <2>1. UNCHANGED storeVars BY <1>5 DEF EvictTemporary
  <2>. QED BY <2>1, StillIsQuiet DEF Step
<1>. QED BY <1>1, <1>2, <1>3, <1>4, <1>5

(* Amendments, snapshots and clean-ups.                                      *)
LEMMA HistoryStep ==
    ASSUME StoreInv, HistoryCalls
    PROVE  Step
<1>. USE DEF storeVars, logVars, extraVars, histVars, govVars
<1>1. ASSUME NEW c \in Address, NEW i \in DOMAIN order, NEW m \in Metadata, NEW h \in Handle,
             update_event(c, i, m, h)
      PROVE  Step
  <2>1. AmendFrame BY <1>1 DEF update_event, AmendFrame, StoreInv, StoreTypeOK
  <2>2. UpdateEffect(c, i, m, h) BY <1>1 DEF update_event
  <2>. QED BY <2>1, <2>2, UpdateStep
<1>2. ASSUME NEW c \in Address, NEW i \in DOMAIN order, NEW v \in 0..(MaxVersions - 1),
             NEW h \in Handle, rollback_event(c, i, v, h)
      PROVE  Step
  <2>1. AmendFrame BY <1>2 DEF rollback_event, AmendFrame, StoreInv, StoreTypeOK
  <2>2. RollbackEffect(c, i, v, h) BY <1>2 DEF rollback_event
  <2>3. i \in Nat /\ v \in Nat BY BoundsAssumption DEF StoreInv, StoreConsistent, StoreTypeOK
  <2>. QED BY <2>1, <2>2, <2>3, RollbackStep
<1>3. ASSUME NEW c \in Address, create_snapshot(c) PROVE Step
  BY <1>3 DEF create_snapshot, Step, Quiet, StoreInv, StoreTypeOK, WithinGlobalMax
<1>4. ASSUME NEW c \in Address, NEW start, NEW batch, NEW hs,
             \/ cleanup_stale_hashes(c, start, batch, hs)
             \/ cleanup_stale_dedup_entries(c, start, batch, hs)
      PROVE  Step
  <2>1. UNCHANGED storeVars
    BY <1>4 DEF cleanup_stale_hashes, cleanup_stale_dedup_entries
  <2>. QED BY <2>1, StillIsQuiet DEF Step
<1>. QED BY <1>1, <1>2, <1>3, <1>4 DEF HistoryCalls

(* Every entry point and every host step is one of the three kinds.          *)
LEMMA NextIsStep ==
    ASSUME StoreInv, [Next]_vars
    PROVE  Step
<1>. USE DEF logVars, extraVars, histVars, govVars
<1>1. CASE Tick
  BY <1>1 DEF Tick, Step, Quiet, StoreInv, StoreTypeOK, WithinGlobalMax
<1>2. CASE LogCalls
  <2>1. PICK s \in Address, t \in EventType, m \in Metadata, h \in Handle :
          \/ \E cat \in Category, force \in BOOLEAN : log_event(s, t, m, cat, force, h)
          \/ \E cat \in Category, force \in BOOLEAN, key \in Option(CustomKey) :
                log_event_with_custom_key(s, t, m, cat, force, h, key)
          \/ log_event_signed(s, t, m, h)
          \/ \E n \in Nonce : log_event_with_nonce(s, t, m, n, h)
    BY <1>2 DEF LogCalls
  <2>2. \E cat \in Category, force \in BOOLEAN : \E key :
          log_event_with_hierarchy(s, t, m, cat, force, h, key)
    BY <2>1, TypesAssumption DEF log_event, log_event_with_custom_key, log_event_signed,
                                 log_event_with_nonce
  <2>3. UNCHANGED <<now, versions, snaps, proposals>>
    BY <2>1 DEF log_event, log_event_with_custom_key, log_event_signed, log_event_with_nonce
  <2>. QED BY <2>2, <2>3, LogStep
<1>3. CASE BatchCalls
  <2>1. PICK items \in Batches : log_events(items) BY <1>3 DEF BatchCalls
  <2>2. items \in Seq(Item) BY InputsAssumption
  <2>. QED BY <2>1, <2>2, BatchGrows DEF Step
<1>4. CASE UNCHANGED vars
  <2>1. UNCHANGED storeVars BY <1>4 DEF vars, storeVars
  <2>. QED BY <2>1, StillIsQuiet DEF Step
<1>. QED BY <1>1, <1>2, <1>3, <1>4, HistoryStep, ProposalStep, SettingStep DEF Next

-----------------------------------------------------------------------------
(* The store invariant holds in every reachable state of the contract.       *)

(* initialize leaves an empty, consistent store.                             *)
LEMMA InitStore ==
    ASSUME Init
    PROVE  StoreInv
<1>1. /\ now = 0 /\ DOMAIN order = {} /\ DOMAIN data = {} /\ DOMAIN versions = {}
      /\ cfg = [max |-> InitialMaxLogs, total |-> 0]
      /\ rs = [max |-> InitialMaxLogs, total |-> 0, paused |-> FALSE]
      /\ snaps = <<>> /\ proposals = <<>>
  BY DEF Init, EmptyMap
<1>2. InitialMaxLogs \in Nat BY DeployAssumption
<1>3. StoreTypeOK BY <1>1, <1>2 DEF StoreTypeOK, PartialMap
<1>4. StoreConsistent BY <1>1 DEF StoreConsistent
<1>. QED BY <1>1, <1>2, <1>3, <1>4 DEF StoreInv, HashCommitsToPrefix, WithinGlobalMax,
                                     TimestampsOrdered, HistoryFaithful

(* Every step keeps it.                                                      *)
LEMMA StepKeepsStore ==
    ASSUME StoreInv, [Next]_vars
    PROVE  StoreInv'
<1>1. Step BY NextIsStep
<1>2. CASE Quiet BY <1>2, QuietKeepsStore
<1>3. CASE \E n \in Nat : Grows(n) BY <1>3, GrowthKeepsStore
<1>4. CASE Amendment
  <2>1. AmendFrame BY <1>4 DEF Amendment
  <2>2. PICK c, i, e, h : Amends(c, i, e, h) BY <1>4 DEF Amendment
  <2>. QED BY <2>1, <2>2, AmendmentKeepsStore
<1>. QED BY <1>1, <1>2, <1>3, <1>4 DEF Step

(* Any interleaving of logging, batches, amendments, proposals and settings  *)
(* keeps the event store of lib.rs well formed, chained and in time order.   *)
THEOREM StoreInvariant == Spec => []StoreInv
<1>1. Init => StoreInv BY InitStore
<1>2. StoreInv /\ [Next]_vars => StoreInv' BY StepKeepsStore
<1>. QED BY <1>1, <1>2, PTL DEF Spec

(* The event store always has the types its readers expect.                  *)
THEOREM StoreTyped == Spec => []StoreTypeOK
<1>1. StoreInv => StoreTypeOK BY DEF StoreInv
<1>. QED BY <1>1, StoreInvariant, PTL

(* The totals agree and every position leads to its own event.               *)
THEOREM StoreIsConsistent == Spec => []StoreConsistent
<1>1. StoreInv => StoreConsistent BY DEF StoreInv
<1>. QED BY <1>1, StoreInvariant, PTL

(* verify_integrity returns true in every reachable state.                   *)
THEOREM ChainAlwaysVerifies == Spec => []ChainIntact
<1>1. StoreInv => ChainIntact BY CommitmentVerifies DEF StoreInv
<1>. QED BY <1>1, StoreInvariant, PTL

(* Every hash commits to exactly the events before it.                       *)
THEOREM HashesCommit == Spec => []HashCommitsToPrefix
<1>1. StoreInv => HashCommitsToPrefix BY DEF StoreInv
<1>. QED BY <1>1, StoreInvariant, PTL

(* The global maximum in RuntimeState is never exceeded.                     *)
THEOREM GlobalMaxHolds == Spec => []WithinGlobalMax
<1>1. StoreInv => WithinGlobalMax BY DEF StoreInv
<1>. QED BY <1>1, StoreInvariant, PTL

(* Positions follow time.                                                    *)
THEOREM PositionsFollowTime == Spec => []TimestampsOrdered
<1>1. StoreInv => TimestampsOrdered BY DEF StoreInv
<1>. QED BY <1>1, StoreInvariant, PTL

(* The newest recorded version is always the stored event.                   *)
THEOREM HistoryIsFaithful == Spec => []HistoryFaithful
<1>1. StoreInv => HistoryFaithful BY DEF StoreInv
<1>. QED BY <1>1, StoreInvariant, PTL

-----------------------------------------------------------------------------
(* No silent change.                                                         *)

(* An event whose stored form and history stay is traced.                    *)
LEMMA KeptIsTraced ==
    ASSUME NEW i \in DOMAIN order, i \in DOMAIN order', order'[i] = order[i],
           EventAt(i)' = EventAt(i), versions' = versions
    PROVE  Traced(i)
BY DEF Traced, get_event_history

(* An amendment traces its own event and leaves the others alone.            *)
LEMMA AmendmentIsTraced ==
    ASSUME StoreInv, NEW c, NEW i, NEW e, NEW h, Amends(c, i, e, h), NEW k \in DOMAIN order
    PROVE  Traced(k)
<1>. DEFINE new   == Rehashed(e, IdOf(e, i, h), i)
            hist  == get_event_history(i)
            hist2 == Append(hist, VersionOf(c, new))
<1>1. /\ DOMAIN order' = DOMAIN order /\ order'[i] = IdOf(e, i, h)
      /\ Identity(EventAt(k)') = Identity(EventAt(k))
      /\ k # i => /\ order'[k] = order[k]
                  /\ EventAt(k)'.metadata = EventAt(k).metadata
  BY AmendedLog
<1>2. IdOf(e, i, h) # order[i] BY DEF Amends
<1>3. /\ versions' = Put(versions, i, hist2)
      /\ Len(hist2) = Len(hist) + 1
      /\ \A v \in 1..Len(hist) : hist2[v] = hist[v]
  BY AmendedHistory
<1>. HIDE DEF new, hist, hist2
<1>4. CASE k = i
  <2>1. get_event_history(i)' = hist2 BY <1>3 DEF get_event_history, Put
  <2>2. hist \in Seq(Version) BY <1>4, HistoryType DEF hist
  <2>3. DOMAIN hist = 1..Len(hist) BY <2>2
  <2>4. get_event_history(k)' = hist2 /\ get_event_history(k) = hist
    BY <1>4, <2>1 DEF hist
  <2>. QED BY <1>1, <1>2, <1>3, <1>4, <2>3, <2>4 DEF Traced
<1>5. CASE k # i
  <2>1. k \in DOMAIN versions' <=> k \in DOMAIN versions BY <1>3, <1>5 DEF Put
  <2>2. k \in DOMAIN versions => versions'[k] = versions[k] BY <1>3, <1>5 DEF Put
  <2>3. Len(get_event_history(k)') = Len(get_event_history(k))
    <3>1. CASE k \in DOMAIN versions BY <3>1, <2>1, <2>2 DEF get_event_history
    <3>2. CASE k \notin DOMAIN versions BY <3>2, <2>1 DEF get_event_history
    <3>. QED BY <3>1, <3>2
  <2>. QED BY <1>1, <1>5, <2>3 DEF Traced
<1>. QED BY <1>4, <1>5

(* Every step traces every event.                                            *)
LEMMA StepIsTraced ==
    ASSUME StoreInv, Step, NEW i \in DOMAIN order
    PROVE  Traced(i)
<1>1. CASE Quiet BY <1>1, KeptIsTraced DEF Quiet, EventAt
<1>2. CASE \E n \in Nat : Grows(n)
  <2>1. i \in 0..(rs.total - 1) /\ rs.total \in Nat
    BY DEF StoreInv, StoreConsistent, StoreTypeOK
  <2>2. /\ i \in DOMAIN order' /\ order'[i] = order[i] /\ EventAt(i)' = EventAt(i)
        /\ versions' = versions
    BY <1>2, <2>1 DEF Grows, OldKept, EventAt
  <2>. QED BY <2>2, KeptIsTraced
<1>3. CASE Amendment BY <1>3, AmendmentIsTraced DEF Amendment
<1>. QED BY <1>1, <1>2, <1>3 DEF Step

(* No entry point drops, reorders or alters an event without appending to    *)
(* the history that get_event_history returns.                               *)
THEOREM ChangesAreTraced == Spec => ChangesLeaveTrace
<1>1. StoreInv /\ [Next]_vars => [\A i \in DOMAIN order : Traced(i)]_vars
  BY NextIsStep, StepIsTraced
<1>. QED BY <1>1, StoreInvariant, PTL DEF Spec, ChangesLeaveTrace

-----------------------------------------------------------------------------
(* Snapshots.                                                                *)

(* A snapshot's hash has one link per event it covers, with that event's     *)
(* position and timestamp, which no amendment changes.                       *)
SnapshotLinked(snap) ==
    /\ snap.event_count \in 0..rs.total
    /\ snap.event_hash \in [1..snap.event_count -> LinkSet]
    /\ \A i \in 1..snap.event_count :
          /\ snap.event_hash[i][2] = i - 1
          /\ snap.event_hash[i][3] = EventAt(i - 1).timestamp

SnapshotsLinked == \A k \in DOMAIN snaps : SnapshotLinked(snaps[k])

(* The snapshot create_snapshot takes is the current chain.                  *)
LEMMA NewSnapshotLinked ==
    ASSUME StoreInv
    PROVE  SnapshotLinked(SnapshotNow)
<1>. USE DEF StoreInv
<1>1. rs.total \in Nat /\ rs.total \in 0..rs.total BY DEF StoreTypeOK
<1>2. PrevHash(rs.total) = Links(rs.total) /\ Links(rs.total) \in [1..rs.total -> LinkSet]
  BY <1>1, PrevHashLinks, LinksType
<1>3. SnapshotNow.event_count = rs.total /\ SnapshotNow.event_hash = Links(rs.total)
  BY <1>2 DEF SnapshotNow
<1>4. \A i \in 1..rs.total : Links(rs.total)[i] = <<order[i - 1], i - 1, EventAt(i - 1).timestamp>>
  BY DEF Links, LinkAt, Link
<1>. HIDE DEF StoreInv
<1>. QED BY <1>1, <1>2, <1>3, <1>4 DEF SnapshotLinked

(* A linked snapshot verifies exactly while the ids it covers are in place.  *)
LEMMA LinkedSnapshotPins ==
    ASSUME StoreInv, NEW snap, SnapshotLinked(snap)
    PROVE  /\ snap.event_count <= rs.total
           /\ Len(snap.event_hash) = snap.event_count
           /\ verify_snapshot(snap) <=>
                 \A i \in 0..(snap.event_count - 1) : snap.event_hash[i + 1][1] = order[i]
<1>. DEFINE n == snap.event_count
            hash == snap.event_hash
<1>1. /\ rs.total \in Nat /\ n \in 0..rs.total /\ n \in Nat /\ n <= rs.total
      /\ hash \in [1..n -> LinkSet]
  BY DEF SnapshotLinked, StoreInv, StoreTypeOK
<1>2. Len(hash) = n BY <1>1, RuleIsSeq
<1>3. PrevHash(n) = Links(n) /\ Links(n) \in [1..n -> LinkSet]
  BY <1>1, PrevHashLinks, LinksType DEF StoreInv
<1>4. ASSUME NEW i \in 1..n
      PROVE  /\ Links(n)[i] = <<order[i - 1], i - 1, EventAt(i - 1).timestamp>>
             /\ hash[i] = <<hash[i][1], i - 1, EventAt(i - 1).timestamp>>
  <2>1. Links(n)[i] = <<order[i - 1], i - 1, EventAt(i - 1).timestamp>>
    BY DEF Links, LinkAt, Link
  <2>2. hash[i] \in EventId \X Nat \X Nat BY <1>1 DEF LinkSet
  <2>3. hash[i][2] = i - 1 /\ hash[i][3] = EventAt(i - 1).timestamp BY DEF SnapshotLinked
  <2>. QED BY <2>1, <2>2, <2>3
<1>5. ASSUME hash = Links(n), NEW i \in 0..(n - 1) PROVE hash[i + 1][1] = order[i]
  <2>1. i + 1 \in 1..n /\ (i + 1) - 1 = i BY <1>1
  <2>2. hash[i + 1] = <<order[i], i, EventAt(i).timestamp>> BY <2>1, <1>4, <1>5
  <2>. QED BY <2>2
<1>6. ASSUME \A i \in 0..(n - 1) : hash[i + 1][1] = order[i] PROVE hash = Links(n)
  <2>1. ASSUME NEW i \in 1..n PROVE hash[i] = Links(n)[i]
    <3>1. i - 1 \in 0..(n - 1) /\ (i - 1) + 1 = i BY <1>1
    <3>2. hash[i][1] = order[i - 1] BY <3>1, <1>6
    <3>. QED BY <3>2, <1>4
  <2>. QED BY <2>1, <1>1, <1>3
<1>7. verify_snapshot(snap) <=> hash = Links(n)
  BY <1>1, <1>3 DEF verify_snapshot
<1>. QED BY <1>1, <1>2, <1>5, <1>6, <1>7

(* Steps keep positions and timestamps, hence linked snapshots.              *)
LEMMA StepKeepsSnapshots ==
    ASSUME StoreInv, StoreInv', Step, SnapshotsLinked
    PROVE  SnapshotsLinked'
<1>1. \A i \in DOMAIN order : i \in DOMAIN order' /\ EventAt(i)'.timestamp = EventAt(i).timestamp
  BY StepIsTraced DEF Traced, Identity
<1>2. /\ rs.total \in Nat /\ rs'.total \in Nat
      /\ DOMAIN order = 0..(rs.total - 1) /\ DOMAIN order' = 0..(rs'.total - 1)
  BY DEF StoreInv, StoreTypeOK, StoreConsistent
<1>3. rs.total <= rs'.total
  <2>1. CASE rs.total = 0 BY <2>1, <1>2
  <2>2. CASE rs.total # 0
    <3>1. rs.total - 1 \in DOMAIN order BY <2>2, <1>2
    <3>2. rs.total - 1 \in 0..(rs'.total - 1) BY <3>1, <1>1, <1>2
    <3>. QED BY <3>2, <1>2
  <2>. QED BY <2>1, <2>2
<1>4. ASSUME NEW snap, SnapshotLinked(snap) PROVE SnapshotLinked(snap)'
  <2>1. snap.event_count \in Nat /\ snap.event_count \in 0..rs'.total
    BY <1>2, <1>3, <1>4 DEF SnapshotLinked
  <2>2. ASSUME NEW i \in 1..snap.event_count
        PROVE  EventAt(i - 1)'.timestamp = EventAt(i - 1).timestamp
    <3>1. i - 1 \in DOMAIN order BY <1>2, <1>4 DEF SnapshotLinked
    <3>. QED BY <3>1, <1>1
  <2>. QED BY <2>1, <2>2, <1>4 DEF SnapshotLinked
<1>5. snaps \in Seq(Snapshot) BY DEF StoreInv, StoreTypeOK
<1>6. snaps' = snaps \/ snaps' = Append(snaps, SnapshotNow)
  BY DEF Step, Quiet, Grows, Amendment, AmendFrame
<1>7. CASE snaps' = snaps BY <1>4, <1>7 DEF SnapshotsLinked
<1>8. CASE snaps' = Append(snaps, SnapshotNow)
  <2>1. PICK now0 : now0 = SnapshotNow OBVIOUS
  <2>2. SnapshotLinked(now0)' BY <2>1, <1>4, NewSnapshotLinked
  <2>3. /\ DOMAIN snaps' = 1..(Len(snaps) + 1) /\ Len(snaps) \in Nat
        /\ \A k \in 1..Len(snaps) : snaps'[k] = snaps[k] /\ k \in DOMAIN snaps
        /\ snaps'[Len(snaps) + 1] = now0
    BY <2>1, <1>5, <1>8
  <2>4. ASSUME NEW k \in DOMAIN snaps'
        PROVE  \E snap : snaps'[k] = snap /\ SnapshotLinked(snap)'
    <3>1. CASE k \in 1..Len(snaps) BY <3>1, <2>3, <1>4 DEF SnapshotsLinked
    <3>2. CASE k = Len(snaps) + 1 BY <3>2, <2>2, <2>3
    <3>. QED BY <3>1, <3>2, <2>3
  <2>. QED BY <2>4 DEF SnapshotsLinked
<1>. QED BY <1>6, <1>7, <1>8

(* verify_snapshot tells exactly whether an event below the snapshot was     *)
(* amended since, in every reachable state.                                  *)
THEOREM SnapshotsPinPrefixes == Spec => []SnapshotPinsPrefix
<1>1. Init => SnapshotsLinked BY DEF Init, SnapshotsLinked
<1>2. StoreInv /\ StoreInv' /\ SnapshotsLinked /\ [Next]_vars => SnapshotsLinked'
  BY NextIsStep, StepKeepsSnapshots
<1>3. StoreInv /\ SnapshotsLinked => SnapshotPinsPrefix
  BY LinkedSnapshotPins DEF SnapshotsLinked, SnapshotPinsPrefix
<1>. QED BY <1>1, <1>2, <1>3, StoreInvariant, PTL DEF Spec

-----------------------------------------------------------------------------
(* The refinement: AuditLedger implements AmendableLog under its mapping. A  *)
(* quiet step pins or stutters, a growing one extends the list, an amendment *)
(* appends one version.                                                      *)

(* The mapped state.                                                         *)

Pins == [k \in DOMAIN snaps |-> PinView(snaps[k])]

(* The metadata of a history's versions, oldest first.                       *)
Payloads(history) == [v \in DOMAIN history |-> history[v].data.metadata]

(* A list given by a rule has the length of its domain.                      *)
LEMMA RuleLength ==
    ASSUME NEW n \in Nat, NEW f, f = [k \in 1..n |-> f[k]]
    PROVE  Len(f) = n /\ DOMAIN f = 1..n
<1>1. f \in [1..n -> {f[k] : k \in 1..n}] OBVIOUS
<1>. QED BY <1>1, RuleIsSeq

(* The list has one entry per position.                                      *)
LEMMA ViewLength ==
    ASSUME StoreInv
    PROVE  /\ rs.total \in Nat
           /\ Len(LogView) = rs.total
           /\ DOMAIN LogView = 1..rs.total
           /\ \A k \in 1..rs.total : LogView[k] = EntryAt(k - 1)
<1>1. rs.total \in Nat BY DEF StoreInv, StoreTypeOK
<1>2. LogView = [k \in 1..rs.total |-> LogView[k]] BY DEF LogView
<1>. QED BY <1>1, <1>2, RuleLength DEF LogView

(* An entry's newest version is the event's stored metadata.                 *)
LEMMA EntryNewest ==
    ASSUME StoreInv, NEW i \in DOMAIN order
    PROVE  /\ Promise!Newest(EntryAt(i)) = EventAt(i).metadata
           /\ EntryAt(i).versions = Payloads(get_event_history(i))
           /\ Len(EntryAt(i).versions) = Len(get_event_history(i))
<1>. DEFINE hist == get_event_history(i)
<1>1. /\ hist \in Seq(Version) /\ Len(hist) \in Nat /\ Len(hist) > 0
      /\ hist[Len(hist)].data.metadata = EventAt(i).metadata
  BY HistoryType
<1>2. EntryAt(i).versions = Payloads(hist) BY DEF EntryAt, Payloads
<1>. HIDE DEF hist
<1>3. DOMAIN hist = 1..Len(hist) BY <1>1
<1>4. Payloads(hist) = [v \in 1..Len(hist) |-> Payloads(hist)[v]] BY <1>3 DEF Payloads
<1>5. Len(Payloads(hist)) = Len(hist) BY <1>1, <1>4, RuleLength
<1>6. Payloads(hist)[Len(hist)] = EventAt(i).metadata BY <1>1, <1>3 DEF Payloads
<1>. QED BY <1>2, <1>5, <1>6 DEF Promise!Newest, hist

-----------------------------------------------------------------------------
(* Quiet steps.                                                              *)

(* The hash create_snapshot stores commits to the list as it is.             *)
LEMMA NewPinIsCurrent ==
    ASSUME StoreInv
    PROVE  PinView(SnapshotNow) = Promise!Current
<1>. DEFINE n == rs.total
<1>1. n \in Nat /\ DOMAIN LogView = 1..n /\ \A k \in 1..n : LogView[k] = EntryAt(k - 1)
  BY ViewLength
<1>2. n \in 0..n BY <1>1
<1>3. SnapshotNow.event_count = n /\ SnapshotNow.event_hash = Links(n)
  BY <1>2, PrevHashLinks DEF SnapshotNow, StoreInv
<1>4. ASSUME NEW k \in 1..n
      PROVE  /\ Links(n)[k][1].submitter = LogView[k].who
             /\ Links(n)[k][1].timestamp = LogView[k].when
             /\ Links(n)[k][1].metadata = Promise!Newest(LogView[k])
  <2>1. k - 1 \in DOMAIN order BY <1>1 DEF StoreInv, StoreConsistent
  <2>2. Links(n)[k][1] = order[k - 1] BY DEF Links, LinkAt, Link
  <2>3. Addresses(order[k - 1], EventAt(k - 1)) BY <2>1 DEF StoreInv, StoreConsistent
  <2>4. EntryAt(k - 1).who = EventAt(k - 1).submitter
        /\ EntryAt(k - 1).when = EventAt(k - 1).timestamp
    BY DEF EntryAt
  <2>5. Promise!Newest(EntryAt(k - 1)) = EventAt(k - 1).metadata BY <2>1, EntryNewest
  <2>. QED BY <1>1, <2>2, <2>3, <2>4, <2>5 DEF Addresses
<1>. QED BY <1>1, <1>3, <1>4 DEF PinView, Promise!Current

(* A step that leaves the log alone pins it or does nothing.                 *)
LEMMA QuietRefines ==
    ASSUME StoreInv, Quiet
    PROVE  Promise!Pin \/ UNCHANGED <<LogView, Pins>>
<1>1. LogView' = LogView
  BY DEF Quiet, LogView, EntryAt, EventAt, get_event_history
<1>2. CASE snaps' = snaps BY <1>1, <1>2 DEF Pins, PinView
<1>3. CASE snaps' = Append(snaps, SnapshotNow)
  <2>1. snaps \in Seq(Snapshot) BY DEF StoreInv, StoreTypeOK
  <2>2. PICK new : new = SnapshotNow OBVIOUS
  <2>3. /\ Len(snaps) \in Nat /\ DOMAIN snaps = 1..Len(snaps)
        /\ DOMAIN snaps' = 1..(Len(snaps) + 1)
        /\ \A k \in 1..Len(snaps) : snaps'[k] = snaps[k]
        /\ snaps'[Len(snaps) + 1] = new
    BY <2>1, <2>2, <1>3
  <2>. DEFINE S == {PinView(snaps'[k]) : k \in 1..(Len(snaps) + 1)}
              a == [k \in 1..Len(snaps) |-> PinView(snaps[k])]
              b == [k \in 1..(Len(snaps) + 1) |-> PinView(snaps'[k])]
  <2>4. a \in [1..Len(snaps) -> S] BY <2>3
  <2>5. b \in [1..(Len(snaps) + 1) -> S] OBVIOUS
  <2>6. \A k \in 1..Len(snaps) : a[k] = b[k] BY <2>3
  <2>7. b[Len(snaps) + 1] = PinView(new) BY <2>3
  <2>8. Pins = a /\ Pins' = b BY <2>3 DEF Pins, PinView
  <2>. HIDE DEF a, b, S
  <2>9. Append(a, b[Len(snaps) + 1]) = b BY <2>3, <2>4, <2>5, <2>6, AppendRule
  <2>10. Pins' = Append(Pins, Promise!Current)
    BY <2>2, <2>7, <2>8, <2>9, NewPinIsCurrent
  <2>. QED BY <1>1, <2>10 DEF Promise!Pin, Pins
<1>. QED BY <1>2, <1>3 DEF Quiet
-----------------------------------------------------------------------------
(* Growing steps.                                                            *)

(* Appended events are unamended entries after the ones already there.       *)
LEMMA GrowthRefines ==
    ASSUME StoreInv, NEW n \in Nat, Grows(n)
    PROVE  Promise!Grow \/ UNCHANGED <<LogView, Pins>>
<1>1. /\ rs.total \in Nat /\ rs.total <= n /\ rs'.total = n
      /\ versions' = versions /\ snaps' = snaps
      /\ DOMAIN order = 0..(rs.total - 1)
  BY DEF Grows, StoreInv, StoreTypeOK, StoreConsistent
<1>2. Pins' = Pins BY <1>1 DEF Pins, PinView
<1>3. /\ Len(LogView) = rs.total /\ DOMAIN LogView = 1..rs.total
      /\ \A k \in 1..rs.total : LogView[k] = EntryAt(k - 1)
  BY ViewLength
<1>4. LogView' = [k \in 1..n |-> EntryAt(k - 1)'] BY <1>1 DEF LogView
<1>5. LogView' = [k \in 1..n |-> LogView'[k]] BY <1>4
<1>6. Len(LogView') = n /\ DOMAIN LogView' = 1..n BY <1>5, RuleLength
<1>7. ASSUME NEW k \in 1..rs.total PROVE LogView'[k] = LogView[k]
  <2>1. k - 1 \in 0..(rs.total - 1) /\ k \in 1..n BY <1>1
  <2>2. EventAt(k - 1)' = EventAt(k - 1) BY <2>1 DEF Grows, OldKept, EventAt
  <2>3. EntryAt(k - 1)' = EntryAt(k - 1) BY <2>2, <1>1 DEF EntryAt, get_event_history
  <2>. QED BY <2>1, <2>3, <1>3, <1>4
<1>8. ASSUME NEW k \in 1..n \ 1..rs.total PROVE Len(LogView'[k].versions) = 1
  <2>1. k - 1 \notin DOMAIN versions BY <1>1 DEF StoreInv, HistoryFaithful
  <2>2. DOMAIN get_event_history(k - 1)' = 1..1 BY <2>1, <1>1 DEF get_event_history
  <2>. DEFINE vs == EntryAt(k - 1)'.versions
  <2>3. vs = [v \in 1..1 |-> vs[v]] BY <2>2 DEF EntryAt
  <2>. HIDE DEF vs
  <2>4. Len(vs) = 1 BY <2>3, RuleLength
  <2>. QED BY <2>4, <1>4 DEF vs
<1>9. CASE n = rs.total
  <2>1. LogView = [k \in 1..n |-> EntryAt(k - 1)] BY <1>9 DEF LogView
  <2>2. \A k \in 1..n : LogView'[k] = LogView[k] BY <1>7, <1>9
  <2>3. LogView' = LogView BY <2>1, <2>2, <1>4
  <2>. QED BY <2>3, <1>2
<1>10. CASE n # rs.total
  <2>1. n > rs.total BY <1>1, <1>10
  <2>2. Promise!Extends(LogView, LogView')
    BY <2>1, <1>3, <1>6, <1>7, <1>8 DEF Promise!Extends
  <2>. QED BY <2>2, <1>2 DEF Promise!Grow, Pins
<1>. QED BY <1>9, <1>10

-----------------------------------------------------------------------------
(* Amendments.                                                               *)

(* One entry gains one version, the others stay.                             *)
LEMMA AmendmentRefines ==
    ASSUME StoreInv, AmendFrame, NEW c, NEW i, NEW e, NEW h, Amends(c, i, e, h)
    PROVE  Promise!Amend
<1>. DEFINE new   == Rehashed(e, IdOf(e, i, h), i)
            hist  == get_event_history(i)
            hist2 == Append(hist, VersionOf(c, new))
<1>1. /\ rs.total \in Nat /\ rs'.total = rs.total /\ snaps' = snaps
      /\ DOMAIN order = 0..(rs.total - 1)
  BY DEF AmendFrame, StoreInv, StoreTypeOK, StoreConsistent
<1>2. Pins' = Pins BY <1>1 DEF Pins, PinView
<1>3. /\ i \in DOMAIN order /\ i \in Nat /\ new.metadata \in Metadata
  BY AmendedEvent DEF Event
<1>4. /\ Len(LogView) = rs.total /\ DOMAIN LogView = 1..rs.total
      /\ \A k \in 1..rs.total : LogView[k] = EntryAt(k - 1)
  BY ViewLength
<1>5. LogView' = [k \in 1..rs.total |-> EntryAt(k - 1)'] BY <1>1 DEF LogView
<1>6. LogView' = [k \in 1..rs.total |-> LogView'[k]] BY <1>5
<1>7. Len(LogView') = rs.total /\ DOMAIN LogView' = 1..rs.total BY <1>1, <1>6, RuleLength
<1>8. /\ EventAt(i)' = new
      /\ \A k \in DOMAIN order :
           /\ Identity(EventAt(k)') = Identity(EventAt(k))
           /\ EventAt(k)'.timestamp = EventAt(k).timestamp
           /\ k # i => EventAt(k)'.metadata = EventAt(k).metadata
  BY AmendedLog
<1>9. /\ versions' = Put(versions, i, hist2)
      /\ hist2 \in Seq(Version) /\ Len(hist2) = Len(hist) + 1
      /\ \A v \in 1..Len(hist) : hist2[v] = hist[v]
      /\ hist2[Len(hist) + 1].data = new
  BY AmendedHistory
<1>10. hist \in Seq(Version) /\ Len(hist) \in Nat BY <1>3, HistoryType
<1>11. \A k \in DOMAIN order :
         /\ EntryAt(k)' = [who |-> EntryAt(k).who, when |-> EntryAt(k).when,
                           kind |-> EntryAt(k).kind,
                           versions |-> Payloads(get_event_history(k)')]
         /\ EntryAt(k) = [who |-> EntryAt(k).who, when |-> EntryAt(k).when,
                          kind |-> EntryAt(k).kind,
                          versions |-> Payloads(get_event_history(k))]
  BY <1>8 DEF EntryAt, Payloads, Identity
<1>. HIDE DEF new, hist, hist2
<1>12. ASSUME NEW k \in DOMAIN order, k # i PROVE EntryAt(k)' = EntryAt(k)
  <2>1. k \in DOMAIN versions' <=> k \in DOMAIN versions BY <1>9, <1>12 DEF Put
  <2>2. k \in DOMAIN versions => versions'[k] = versions[k] BY <1>9, <1>12 DEF Put
  <2>3. Payloads(get_event_history(k)') = Payloads(get_event_history(k))
    <3>1. CASE k \in DOMAIN versions BY <3>1, <2>1, <2>2 DEF get_event_history
    <3>2. CASE k \notin DOMAIN versions
      BY <3>2, <2>1, <1>8, <1>12 DEF get_event_history, Payloads
    <3>. QED BY <3>1, <3>2
  <2>. QED BY <2>3, <1>11
<1>13. Payloads(get_event_history(i)') = Append(Payloads(hist), new.metadata)
  <2>1. get_event_history(i)' = hist2 BY <1>9 DEF get_event_history, Put
  <2>. DEFINE n == Len(hist)
              a == Payloads(hist)
              b == Payloads(hist2)
              S == {b[v] : v \in 1..(n + 1)}
  <2>2. DOMAIN hist = 1..n /\ DOMAIN hist2 = 1..(n + 1) BY <1>9, <1>10
  <2>3. a = [v \in 1..n |-> hist[v].data.metadata] BY <2>2 DEF Payloads
  <2>4. b = [v \in 1..(n + 1) |-> hist2[v].data.metadata] BY <2>2 DEF Payloads
  <2>5. n \in Nat /\ \A v \in 1..n : a[v] = b[v] BY <2>3, <2>4, <1>9, <1>10
  <2>6. b[n + 1] = new.metadata BY <2>4, <1>9, <1>10
  <2>. HIDE DEF a, b, n
  <2>7. b \in [1..(n + 1) -> S] BY <2>4
  <2>8. a \in [1..n -> S] BY <2>3, <2>5
  <2>. HIDE DEF S
  <2>9. Append(a, b[n + 1]) = b BY <2>5, <2>7, <2>8, AppendRule
  <2>. QED BY <2>1, <2>6, <2>9 DEF a, b
<1>14. LogView'[i + 1] = [LogView[i + 1] EXCEPT !.versions = Append(@, new.metadata)]
  <2>1. i + 1 \in 1..rs.total /\ (i + 1) - 1 = i BY <1>1, <1>3
  <2>2. LogView'[i + 1] = EntryAt(i)' /\ LogView[i + 1] = EntryAt(i)
    BY <2>1, <1>4, <1>5
  <2>3. PICK w, d, t : /\ EntryAt(i) = [who |-> w, when |-> d, kind |-> t,
                                        versions |-> Payloads(hist)]
                       /\ EntryAt(i)' = [who |-> w, when |-> d, kind |-> t,
                                         versions |-> Payloads(get_event_history(i)')]
    BY <1>3, <1>11 DEF hist
  <2>4. PICK old, more : old = Payloads(hist) /\ more = Append(old, new.metadata) OBVIOUS
  <2>5. /\ LogView[i + 1] = [who |-> w, when |-> d, kind |-> t, versions |-> old]
        /\ LogView'[i + 1] = [who |-> w, when |-> d, kind |-> t, versions |-> more]
    BY <2>2, <2>3, <2>4, <1>13
  <2>6. LogView[i + 1].versions = old BY <2>5
  <2>7. [LogView[i + 1] EXCEPT !.versions = more] = LogView'[i + 1] BY <2>5
  <2>. QED BY <2>4, <2>6, <2>7
<1>15. ASSUME NEW j \in 1..rs.total \ {i + 1} PROVE LogView'[j] = LogView[j]
  <2>1. j - 1 \in DOMAIN order /\ j - 1 # i BY <1>1, <1>3
  <2>. QED BY <2>1, <1>4, <1>5, <1>12
<1>16. i + 1 \in 1..rs.total BY <1>1, <1>3
<1>17. Promise!Amends(LogView, LogView')
  BY <1>3, <1>4, <1>7, <1>14, <1>15, <1>16 DEF Promise!Amends
<1>. QED BY <1>2, <1>17 DEF Promise!Amend, Pins

-----------------------------------------------------------------------------
(* The refinement.                                                           *)

(* initialize leaves an empty list without pins.                             *)
LEMMA InitRefines ==
    ASSUME Init
    PROVE  Promise!Init
<1>1. rs.total = 0 /\ snaps = <<>> BY DEF Init
<1>2. LogView = <<>> BY <1>1 DEF LogView
<1>3. Pins = <<>> BY <1>1 DEF Pins
<1>. QED BY <1>2, <1>3 DEF Promise!Init, Pins

(* The contract of lib.rs implements the amendable log: whatever is called,  *)
(* by whom and in which order, its readers see a list that only grows, whose *)
(* entries keep every version, and pins that keep what they pinned.          *)
THEOREM LedgerIsAmendable == Spec => ImplementsAmendableLog
<1>1. Init => Promise!Init BY InitRefines
<1>2. StoreInv /\ [Next]_vars => [Promise!Next]_<<LogView, Pins>>
  <2>. SUFFICES ASSUME StoreInv, [Next]_vars
                PROVE  Promise!Next \/ UNCHANGED <<LogView, Pins>>
    OBVIOUS
  <2>1. Step BY NextIsStep
  <2>2. CASE Quiet BY <2>2, QuietRefines DEF Promise!Next
  <2>3. CASE \E n \in Nat : Grows(n) BY <2>3, GrowthRefines DEF Promise!Next
  <2>4. CASE Amendment
    <3>1. AmendFrame BY <2>4 DEF Amendment
    <3>2. PICK c, i, e, h : Amends(c, i, e, h) BY <2>4 DEF Amendment
    <3>. QED BY <3>1, <3>2, AmendmentRefines DEF Promise!Next
  <2>. QED BY <2>1, <2>2, <2>3, <2>4 DEF Step
<1>. QED BY <1>1, <1>2, StoreInvariant, PTL DEF Spec, ImplementsAmendableLog, Promise!Spec, Pins

-----------------------------------------------------------------------------
(* What each group of entry points leaves alone.                             *)

(* A logging call runs log_event_with_hierarchy once.                        *)
LEMMA LogCallIsOne ==
    ASSUME LogCalls
    PROVE  /\ UNCHANGED <<now, versions, snaps, access, limits, auth, proposals>>
           /\ \E s \in Address, t \in EventType, m \in Metadata, cat \in Category,
                 force \in BOOLEAN, h \in Handle, key \in Option(CustomKey) :
                 log_event_with_hierarchy(s, t, m, cat, force, h, key)
<1>1. PICK s \in Address, t \in EventType, m \in Metadata, h \in Handle :
        \/ \E cat \in Category, force \in BOOLEAN : log_event(s, t, m, cat, force, h)
        \/ \E cat \in Category, force \in BOOLEAN, key \in Option(CustomKey) :
              log_event_with_custom_key(s, t, m, cat, force, h, key)
        \/ log_event_signed(s, t, m, h)
        \/ \E n \in Nonce : log_event_with_nonce(s, t, m, n, h)
  BY DEF LogCalls
<1>2. UNCHANGED <<now, versions, snaps, access, limits, auth, proposals>>
  BY <1>1 DEF log_event, log_event_with_custom_key, log_event_signed,
              log_event_with_nonce, histVars, govVars
<1>3. {} \in Option(CustomKey) BY DEF Option
<1>4. \E cat \in Category, force \in BOOLEAN, key \in Option(CustomKey) :
         log_event_with_hierarchy(s, t, m, cat, force, h, key)
  BY <1>1, <1>3, TypesAssumption DEF log_event, log_event_with_custom_key,
     log_event_signed, log_event_with_nonce
<1>. QED BY <1>2, <1>4

(* The batch entry point leaves everything but the log and its index alone.  *)
LEMMA BatchFrame ==
    ASSUME BatchCalls
    PROVE  /\ UNCHANGED <<now, dedup, rateState, guard, sigs, nonces, versions, snaps,
                          access, limits, auth, proposals>>
           /\ \E items \in Batches : items \in Seq(Item) /\ log_events(items)
BY InputsAssumption DEF BatchCalls, log_events, extraVars, histVars, govVars

(* The nonce entry points write nonces only.                                 *)
LEMMA NonceFrame ==
    ASSUME NonceCalls
    PROVE  UNCHANGED <<now, order, data, cfg, rs, index, dedup, rateState, guard, sigs,
                       versions, snaps, access, limits, auth, proposals>>
BY DEF NonceCalls, set_submitter_nonce_config, reset_submitter_nonce,
       set_default_nonce_config, logVars, histVars, govVars

(* Amendments, snapshots and clean-ups leave settings and indexes alone.     *)
LEMMA HistoryFrame ==
    ASSUME HistoryCalls
    PROVE  /\ UNCHANGED <<now, cfg, rs, index, rateState, guard, sigs, nonces,
                          access, limits, auth, proposals>>
           /\ \/ dedup' = dedup
              \/ \E keys, keysTs :
                    dedup' = [dedup EXCEPT !.content = Without(@, keys),
                                           !.contentTs = Without(@, keysTs)]
              \/ \E keys : dedup' = [dedup EXCEPT !.content = Without(@, keys)]
<1>. USE DEF logVars, extraVars, histVars, govVars
<1>1. PICK c \in Address :
        \/ \E i \in DOMAIN order, m \in Metadata, h \in Handle : update_event(c, i, m, h)
        \/ \E i \in DOMAIN order, v \in 0..(MaxVersions - 1), h \in Handle :
              rollback_event(c, i, v, h)
        \/ create_snapshot(c)
        \/ \E start, batch, hs : cleanup_stale_hashes(c, start, batch, hs)
        \/ \E start, batch, hs : cleanup_stale_dedup_entries(c, start, batch, hs)
  BY DEF HistoryCalls
<1>2. UNCHANGED <<now, cfg, rs, index, rateState, guard, sigs, nonces,
                  access, limits, auth, proposals>>
  BY <1>1 DEF update_event, rollback_event, create_snapshot, cleanup_stale_hashes,
              cleanup_stale_dedup_entries
<1>3. CASE \E start, batch, hs : cleanup_stale_hashes(c, start, batch, hs)
  BY <1>2, <1>3 DEF cleanup_stale_hashes
<1>4. CASE \E start, batch, hs : cleanup_stale_dedup_entries(c, start, batch, hs)
  BY <1>2, <1>4 DEF cleanup_stale_dedup_entries
<1>5. CASE dedup' = dedup BY <1>2, <1>5
<1>6. dedup' = dedup \/ (\E start, batch, hs : \/ cleanup_stale_hashes(c, start, batch, hs)
                                               \/ cleanup_stale_dedup_entries(c, start, batch, hs))
  BY <1>1 DEF update_event, rollback_event, create_snapshot
<1>. QED BY <1>3, <1>4, <1>5, <1>6

(* The access entry points write access only.                                *)
LEMMA AccessFrame ==
    ASSUME AccessCalls
    PROVE  UNCHANGED <<now, order, data, cfg, rs, index, dedup, rateState, guard, sigs,
                       nonces, versions, snaps, limits, auth, proposals>>
BY DEF AccessCalls, AccessOnly, pause, unpause, block_submitter, unblock_submitter,
       enable_allowlist_mode, disable_allowlist_mode, allow_submitter,
       remove_submitter_from_allowlist, set_low_cost_mode, logVars, extraVars, histVars

(* The limit entry points write limits, the maximum, the index or a policy.  *)
LEMMA LimitFrame ==
    ASSUME LimitCalls
    PROVE  /\ UNCHANGED <<now, order, data, rateState, guard, sigs, nonces,
                          versions, snaps, access, auth, proposals>>
           /\ index' = index \/ \E c \in Address, types \in SUBSET EventType :
                                   compact_storage(c, types)
           /\ \/ dedup' = dedup
              \/ \E c \in Address, p \in DedupPolicy : set_dedup_policy(c, p)
              \/ \E c \in Address, t \in EventType, p \in Option(DedupPolicy) :
                    set_dedup_policy_for_type(c, t, p)
<1>. USE DEF logVars, extraVars, histVars, govVars, LimitsOnly, DedupOnly
<1>1. UNCHANGED <<now, order, data, rateState, guard, sigs, nonces,
                  versions, snaps, access, auth, proposals>>
  BY DEF LimitCalls, set_global_max_logs, set_metadata_max_size, set_submitter_rate_limit,
         compact_storage, set_dedup_policy, set_event_max_logs, remove_event_cap,
         set_event_metadata_max_size, set_metadata_schema, set_dedup_policy_for_type
<1>2. index' = index \/ \E c \in Address, types \in SUBSET EventType :
                           compact_storage(c, types)
  BY DEF LimitCalls, set_global_max_logs, set_metadata_max_size, set_submitter_rate_limit,
         set_dedup_policy, set_event_max_logs, remove_event_cap,
         set_event_metadata_max_size, set_metadata_schema, set_dedup_policy_for_type
<1>3. \/ dedup' = dedup
      \/ \E c \in Address, p \in DedupPolicy : set_dedup_policy(c, p)
      \/ \E c \in Address, t \in EventType, p \in Option(DedupPolicy) :
            set_dedup_policy_for_type(c, t, p)
  BY DEF LimitCalls, set_global_max_logs, set_metadata_max_size, set_submitter_rate_limit,
         compact_storage, set_event_max_logs, remove_event_cap,
         set_event_metadata_max_size, set_metadata_schema
<1>. QED BY <1>1, <1>2, <1>3

(* Ownership and role changes write auth only.                               *)
LEMMA OwnerFrame ==
    ASSUME OwnerCalls
    PROVE  UNCHANGED <<now, order, data, cfg, rs, index, dedup, rateState, guard, sigs,
                       nonces, versions, snaps, access, limits, proposals>>
BY DEF OwnerCalls, AuthOnly, set_required_signatures, enable_rbac, transfer_ownership,
       add_owner, remove_owner, set_role, logVars, extraVars, histVars

(* Proposals leave indexes, maps and nonces alone.                           *)
LEMMA ProposalFrame ==
    ASSUME ProposalCalls
    PROVE  /\ UNCHANGED <<now, rs, index, dedup, rateState, guard, sigs, nonces, snaps>>
           /\ \/ UNCHANGED <<access, limits, auth>>
              \/ \E c \in Address, p \in DOMAIN proposals, h \in Handle :
                    execute_proposal(c, p, h)
BY DEF ProposalCalls, submit_proposal, approve_proposal, execute_proposal,
       logVars, extraVars, histVars

(* Time and the eviction of temporary entries.                               *)
LEMMA HostFrame ==
    ASSUME Tick \/ EvictTemporary \/ UNCHANGED vars
    PROVE  /\ UNCHANGED <<order, data, cfg, rs, index, dedup, rateState, sigs, nonces,
                          versions, snaps, access, limits, auth, proposals>>
           /\ guard' = guard \/ guard' = FALSE
BY DEF Tick, EvictTemporary, vars, logVars, extraVars, histVars, govVars

-----------------------------------------------------------------------------
(* What a step adds to the log.                                              *)

(* The stored path of log_event adds one event at the next position.         *)
LEMMA StoredAt ==
    ASSUME StoreInv, NEW s \in Address, NEW t \in EventType, NEW m \in Metadata,
           NEW cat \in Category, NEW h \in Handle, NEW key,
           StoreEvent(s, t, m, cat, h, key)
    PROVE  /\ NextId(s, t, m, h) \in EventId
           /\ \E i \in Nat :
                /\ i = cfg.total /\ i = rs.total /\ i \notin DOMAIN order
                /\ DOMAIN order' = DOMAIN order \cup {i}
                /\ EventAt(i)' = NewEvent(s, t, m, cat, i, NextId(s, t, m, h), PrevHash(i))
<1>1. cfg.total \in Nat /\ cfg.total = rs.total /\ cfg.total \notin DOMAIN order /\ now \in Nat
  BY DEF StoreInv, StoreTypeOK, StoreConsistent
<1>2. NextId(s, t, m, h) \in EventId BY <1>1, EventIdType DEF NextId
<1>3. PICK i, id, e : /\ i = cfg.total /\ id = NextId(s, t, m, h)
                      /\ e = NewEvent(s, t, m, cat, i, id, PrevHash(i))
  OBVIOUS
<1>4. data' = Put(data, id, e) /\ order' = Put(order, i, id) BY <1>3 DEF StoreEvent
<1>5. order'[i] = id /\ data'[id] = e /\ DOMAIN order' = DOMAIN order \cup {i} BY <1>4 DEF Put
<1>. QED BY <1>1, <1>2, <1>3, <1>5 DEF EventAt

(* A batch adds its events one after the other.                              *)
LEMMA BatchStoredAt ==
    ASSUME StoreInv, NEW items \in Seq(Item), log_events(items)
    PROVE  /\ rs.total \in Nat /\ Len(items) \in Nat
           /\ DOMAIN order' = DOMAIN order \cup {BatchIndex(k) : k \in 1..Len(items)}
           /\ \A k \in 1..Len(items) :
                /\ items[k] \in Item
                /\ BatchIndex(k) \in Nat /\ BatchIndex(k) \notin DOMAIN order
                /\ BatchIndex(k) - rs.total + 1 = k
                /\ \A i : i = BatchIndex(k) => EventAt(i)' = BatchEvent(items, k)
<1>1. /\ rs.total \in Nat /\ now \in Nat /\ DOMAIN order = 0..(rs.total - 1)
      /\ Len(items) \in Nat /\ \A k \in 1..Len(items) : items[k] \in Item
  BY DEF StoreInv, StoreTypeOK, StoreConsistent
<1>2. data' = BatchData(items) /\ order' = BatchOrder(items) BY DEF log_events
<1>3. ASSUME NEW k \in 1..Len(items)
      PROVE  /\ BatchIndex(k) \in Nat /\ BatchIndex(k) \notin DOMAIN order
             /\ BatchIndex(k) - rs.total + 1 = k
             /\ \A i : i = BatchIndex(k) => EventAt(i)' = BatchEvent(items, k)
  <2>1. /\ BatchIndex(k) \in Nat /\ BatchIndex(k) \notin DOMAIN order
        /\ BatchIndex(k) >= rs.total /\ BatchIndex(k) - rs.total + 1 = k
    BY <1>1 DEF BatchIndex
  <2>2. /\ items[k].submitter \in Address /\ items[k].event_type \in EventType
        /\ items[k].metadata \in Metadata /\ items[k].handle \in Handle
    BY <1>1 DEF Item
  <2>3. BatchId(items, k).index = BatchIndex(k) BY <2>1, <2>2, <1>1, EventIdType DEF BatchId
  <2>4. order'[BatchIndex(k)] = BatchId(items, k) BY <2>1, <1>2 DEF BatchOrder
  <2>5. BatchId(items, k) \in {BatchId(items, j) : j \in 1..Len(items)} OBVIOUS
  <2>6. data'[BatchId(items, k)] = BatchEvent(items, k)
    BY <2>1, <2>3, <2>5, <1>2 DEF BatchData
  <2>. QED BY <2>1, <2>4, <2>6 DEF EventAt
<1>4. DOMAIN order' = DOMAIN order \cup {BatchIndex(k) : k \in 1..Len(items)}
  BY <1>2 DEF BatchOrder
<1>. QED BY <1>1, <1>3, <1>4

(* Whatever a step does, an event keeps its type and submitter.              *)
LEMMA EventsStay ==
    ASSUME StoreInv, Step
    PROVE  /\ DOMAIN order \subseteq DOMAIN order'
           /\ \A i \in DOMAIN order : /\ EventAt(i)'.event_type = EventAt(i).event_type
                                      /\ EventAt(i)'.submitter = EventAt(i).submitter
                                      /\ EventAt(i)'.timestamp = EventAt(i).timestamp
           /\ \A t : EventsOfType(t) \subseteq EventsOfType(t)'
           /\ \A s : EventsOf(s) \subseteq EventsOf(s)'
<1>1. \A i \in DOMAIN order : /\ i \in DOMAIN order'
                              /\ Identity(EventAt(i)') = Identity(EventAt(i))
  BY StepIsTraced DEF Traced
<1>2. \A i \in DOMAIN order : /\ EventAt(i)'.event_type = EventAt(i).event_type
                              /\ EventAt(i)'.submitter = EventAt(i).submitter
                              /\ EventAt(i)'.timestamp = EventAt(i).timestamp
  BY <1>1 DEF Identity
<1>. QED BY <1>1, <1>2 DEF EventsOfType, EventsOf

-----------------------------------------------------------------------------
(* The indexes.                                                              *)

IndexTyped ==
    index \in [types : [EventType -> SUBSET Nat], counts : [EventType -> Nat],
               submitters : [Address -> SUBSET Nat]]

(* IndexSound makes the indexed sets finite, so that their sizes, which the  *)
(* cached counts hold, are numbers.                                          *)
IndexInv == IndexTyped /\ IndexSound

(* An indexed set lies within the log.                                       *)
LEMMA IndexFinite ==
    ASSUME StoreInv, IndexInv, NEW t \in EventType
    PROVE  /\ index.types[t] \in SUBSET Nat
           /\ IsFiniteSet(index.types[t]) /\ Cardinality(index.types[t]) \in Nat
<1>1. index.types[t] \subseteq 0..(rs.total - 1) /\ rs.total \in Nat
  BY DEF IndexInv, IndexSound, EventsOfType, StoreInv, StoreConsistent, StoreTypeOK
<1>2. IsFiniteSet(0..(rs.total - 1)) BY <1>1, FS_Interval
<1>3. IsFiniteSet(index.types[t]) BY <1>1, <1>2, FS_Subset
<1>. QED BY <1>1, <1>3, FS_CardinalityType

(* Pushing the position of the event just stored.                            *)
LEMMA StoreKeepsIndex ==
    ASSUME StoreInv, Step, IndexInv, NEW s \in Address, NEW t \in EventType,
           NEW m \in Metadata, NEW cat \in Category, NEW h \in Handle, NEW key,
           StoreEvent(s, t, m, cat, h, key)
    PROVE  IndexInv'
<1>0. PICK i \in Nat : /\ i = cfg.total /\ DOMAIN order' = DOMAIN order \cup {i}
                       /\ EventAt(i)' = NewEvent(s, t, m, cat, i, NextId(s, t, m, h), PrevHash(i))
  BY StoredAt
<1>1. /\ i \in Nat /\ i = cfg.total /\ i \in DOMAIN order'
      /\ EventAt(i)'.event_type = t /\ EventAt(i)'.submitter = s
  BY <1>0 DEF NewEvent
<1>. DEFINE pushed == index.types[t] \cup {i}
            n == Cardinality(IF t \in DOMAIN limits.cap THEN index.types[t] ELSE pushed) + 1
<1>2. n \in Nat
  <2>1. /\ IsFiniteSet(index.types[t]) /\ Cardinality(index.types[t]) \in Nat BY IndexFinite
  <2>2. IsFiniteSet(pushed) BY <2>1, FS_AddElement
  <2>3. Cardinality(pushed) \in Nat BY <2>2, FS_CardinalityType
  <2>. QED BY <2>1, <2>3
<1>3. index' = Indexed(s, t, i) BY <1>1 DEF StoreEvent
<1>4. CASE access.lowCost
  <2>1. index' = index BY <1>3, <1>4 DEF Indexed
  <2>. QED BY <2>1, EventsStay DEF IndexInv, IndexTyped, IndexSound
<1>5. CASE ~access.lowCost
  <2>1. index' = [types |-> [index.types EXCEPT ![t] = pushed],
                  counts |-> [index.counts EXCEPT ![t] = n],
                  submitters |-> [index.submitters EXCEPT ![s] = @ \cup {i}]]
    BY <1>3, <1>5 DEF Indexed
  <2>. HIDE DEF n
  <2>2. /\ index.types \in [EventType -> SUBSET Nat] /\ index.counts \in [EventType -> Nat]
        /\ index.submitters \in [Address -> SUBSET Nat]
    BY DEF IndexInv, IndexTyped
  <2>3. IndexTyped' BY <2>1, <2>2, <1>1, <1>2 DEF IndexTyped
  <2>4. ASSUME NEW u \in EventType PROVE index'.types[u] \subseteq EventsOfType(u)'
    <3>1. index.types[u] \subseteq EventsOfType(u)' BY EventsStay DEF IndexInv, IndexSound
    <3>2. i \in EventsOfType(t)' BY <1>1 DEF EventsOfType
    <3>. QED BY <2>1, <2>2, <3>1, <3>2
  <2>5. ASSUME NEW a \in Address PROVE index'.submitters[a] \subseteq EventsOf(a)'
    <3>1. index.submitters[a] \subseteq EventsOf(a)' BY EventsStay DEF IndexInv, IndexSound
    <3>2. i \in EventsOf(s)' BY <1>1 DEF EventsOf
    <3>. QED BY <2>1, <2>2, <3>1, <3>2
  <2>. QED BY <2>3, <2>4, <2>5 DEF IndexInv, IndexSound
<1>. QED BY <1>4, <1>5

(* Pushing the positions of a batch.                                         *)
LEMMA BatchKeepsIndex ==
    ASSUME StoreInv, Step, IndexInv, NEW items \in Seq(Item), log_events(items)
    PROVE  IndexInv'
<1>1. /\ Len(items) \in Nat
      /\ DOMAIN order' = DOMAIN order \cup {BatchIndex(k) : k \in 1..Len(items)}
      /\ \A k \in 1..Len(items) :
           /\ BatchIndex(k) \in Nat
           /\ \A i : i = BatchIndex(k) => EventAt(i)' = BatchEvent(items, k)
  BY BatchStoredAt
<1>2. \A k \in 1..Len(items) : \A i : i = BatchIndex(k) =>
        /\ i \in DOMAIN order'
        /\ EventAt(i)'.event_type = items[k].event_type
        /\ EventAt(i)'.submitter = items[k].submitter
  BY <1>1 DEF BatchEvent
<1>3. index' = BatchIndexed(items) BY DEF log_events
<1>4. CASE access.lowCost
  <2>1. index' = index BY <1>3, <1>4 DEF BatchIndexed
  <2>. QED BY <2>1, EventsStay DEF IndexInv, IndexTyped, IndexSound
<1>5. CASE ~access.lowCost
  <2>. DEFINE ofType(t) == PositionsOfType(items, t)
              of(s) == PositionsOfSubmitter(items, s)
  <2>1. index' = [types |-> [t \in EventType |-> index.types[t] \cup ofType(t)],
                  counts |-> [t \in EventType |-> index.counts[t] + Cardinality(ofType(t))],
                  submitters |-> [s \in Address |-> index.submitters[s] \cup of(s)]]
    BY <1>3, <1>5 DEF BatchIndexed
  <2>2. ASSUME NEW t \in EventType
        PROVE  ofType(t) \subseteq EventsOfType(t)' /\ ofType(t) \in SUBSET Nat
    BY <1>1, <1>2 DEF PositionsOfType, EventsOfType
  <2>3. ASSUME NEW s \in Address PROVE of(s) \subseteq EventsOf(s)' /\ of(s) \in SUBSET Nat
    BY <1>1, <1>2 DEF PositionsOfSubmitter, EventsOf
  <2>4. ASSUME NEW t \in EventType PROVE Cardinality(ofType(t)) \in Nat
    <3>1. rs'.total \in Nat /\ DOMAIN order' = 0..(rs'.total - 1)
      <4>1. PICK n \in Nat : Grows(n) BY BatchGrows
      <4>2. StoreInv' BY <4>1, GrowthKeepsStore
      <4>. QED BY <4>2 DEF StoreInv, StoreTypeOK, StoreConsistent
    <3>2. IsFiniteSet(0..(rs'.total - 1)) BY <3>1, FS_Interval, SMTT(30)
    <3>3. ofType(t) \subseteq 0..(rs'.total - 1) BY <2>2, <3>1 DEF EventsOfType
    <3>4. IsFiniteSet(ofType(t)) BY <3>2, <3>3, FS_Subset
    <3>. QED BY <3>4, FS_CardinalityType
  <2>5. /\ index.types \in [EventType -> SUBSET Nat] /\ index.counts \in [EventType -> Nat]
        /\ index.submitters \in [Address -> SUBSET Nat]
    BY DEF IndexInv, IndexTyped
  <2>. HIDE DEF ofType, of
  <2>6. IndexTyped' BY <2>1, <2>2, <2>3, <2>4, <2>5 DEF IndexTyped
  <2>7. ASSUME NEW t \in EventType PROVE index'.types[t] \subseteq EventsOfType(t)'
    <3>1. index.types[t] \subseteq EventsOfType(t)' BY EventsStay DEF IndexInv, IndexSound
    <3>. QED BY <2>1, <2>2, <3>1
  <2>8. ASSUME NEW s \in Address PROVE index'.submitters[s] \subseteq EventsOf(s)'
    <3>1. index.submitters[s] \subseteq EventsOf(s)' BY EventsStay DEF IndexInv, IndexSound
    <3>. QED BY <2>1, <2>3, <3>1
  <2>. QED BY <2>6, <2>7, <2>8 DEF IndexInv, IndexSound
<1>. QED BY <1>4, <1>5

(* A step that leaves the indexes alone, or drops some, keeps them sound.    *)
LEMMA FewerKeepsIndex ==
    ASSUME StoreInv, Step, IndexInv, IndexTyped',
           \A t \in EventType : index'.types[t] \subseteq index.types[t],
           index'.submitters = index.submitters
    PROVE  IndexInv'
BY EventsStay DEF IndexInv, IndexSound

(* Every step keeps the indexes.                                             *)
LEMMA StepKeepsIndex ==
    ASSUME StoreInv, IndexInv, [Next]_vars
    PROVE  IndexInv'
<1>1. Step BY NextIsStep
<1>2. CASE index' = index
  BY <1>1, <1>2, FewerKeepsIndex DEF IndexInv, IndexTyped
<1>3. CASE LogCalls
  <2>1. PICK s \in Address, t \in EventType, m \in Metadata, cat \in Category,
             force \in BOOLEAN, h \in Handle, key \in Option(CustomKey) :
             log_event_with_hierarchy(s, t, m, cat, force, h, key)
    BY <1>3, LogCallIsOne
  <2>2. CASE ReturnExisting BY <2>2, <1>2 DEF ReturnExisting
  <2>3. CASE StoreEvent(s, t, m, cat, h, key) BY <2>3, <1>1, StoreKeepsIndex
  <2>. QED BY <2>1, <2>2, <2>3 DEF log_event_with_hierarchy
<1>4. CASE BatchCalls BY <1>1, <1>4, BatchFrame, BatchKeepsIndex
<1>5. ASSUME NEW c \in Address, NEW types \in SUBSET EventType, compact_storage(c, types)
      PROVE  IndexInv'
  <2>1. index' = [index EXCEPT !.types =
                    [t \in EventType |->
                       IF t \in types \ DOMAIN limits.cap THEN {} ELSE index.types[t]]]
    BY <1>5 DEF compact_storage
  <2>2. IndexTyped' BY <2>1 DEF IndexInv, IndexTyped
  <2>3. /\ \A t \in EventType : index'.types[t] \subseteq index.types[t]
        /\ index'.submitters = index.submitters
    BY <2>1 DEF IndexInv, IndexTyped
  <2>. QED BY <1>1, <2>2, <2>3, FewerKeepsIndex
<1>. QED BY <1>2, <1>3, <1>4, <1>5, NonceFrame, HistoryFrame, AccessFrame, LimitFrame,
            OwnerFrame, ProposalFrame, HostFrame DEF Next

(* The index invariant holds in every reachable state.                       *)
THEOREM IndexInvariant == Spec => []IndexInv
<1>1. Init => IndexInv BY DEF Init, IndexInv, IndexTyped, IndexSound
<1>2. StoreInv /\ IndexInv /\ [Next]_vars => IndexInv' BY StepKeepsIndex
<1>. QED BY <1>1, <1>2, StoreInvariant, PTL DEF Spec

(* The type and submitter indexes of lib.rs never point at another type's or *)
(* submitter's event, or beyond the log, whatever is called in which order.  *)
THEOREM IndexesStaySound == Spec => []IndexSound
<1>1. IndexInv => IndexSound BY DEF IndexInv
<1>. QED BY <1>1, IndexInvariant, PTL

-----------------------------------------------------------------------------
(* Maps with optional keys.                                                  *)

(* storage.set of a typed entry keeps a map's type,                          *)
LEMMA PutTyped ==
    ASSUME NEW S, NEW T, NEW f, PartialMap(f, S, T), NEW k \in S, NEW v \in T
    PROVE  PartialMap(Put(f, k, v), S, T)
BY DEF PartialMap, Put

(* storage.remove of a key does,                                             *)
LEMMA DropTyped ==
    ASSUME NEW S, NEW T, NEW f, PartialMap(f, S, T), NEW k
    PROVE  PartialMap(Drop(f, k), S, T)
BY DEF PartialMap, Drop

(* the removal of stale entries does,                                        *)
LEMMA WithoutTyped ==
    ASSUME NEW S, NEW T, NEW f, PartialMap(f, S, T), NEW keys
    PROVE  PartialMap(Without(f, keys), S, T)
BY DEF PartialMap, Without

(* and get().unwrap_or yields a value of the type.                           *)
LEMMA GetOrTyped ==
    ASSUME NEW S, NEW T, NEW f, PartialMap(f, S, T), NEW k, NEW d \in T
    PROVE  GetOr(f, k, d) \in T
BY DEF PartialMap, GetOr

(* What an optional argument holds is a value of its type.                   *)
LEMMA OptionTyped ==
    ASSUME NEW S, NEW o \in Option(S), o # {}
    PROVE  (CHOOSE x \in o : TRUE) \in S /\ (CHOOSE x \in o : TRUE) \in o
<1>1. PICK x \in S : o = {x} BY DEF Option
<1>. QED BY <1>1

-----------------------------------------------------------------------------
(* Deduplication.                                                            *)

ContentHash == (EventType \cup Handle) \X Address \X Metadata

DedupTyped ==
    /\ dedup = [policy |-> dedup.policy, policyFor |-> dedup.policyFor,
                content |-> dedup.content, contentTs |-> dedup.contentTs,
                custom |-> dedup.custom]
    /\ dedup.policy \in DedupPolicy
    /\ PartialMap(dedup.policyFor, EventType, DedupPolicy)
    /\ PartialMap(dedup.content, ContentHash, Nat)
    /\ PartialMap(dedup.contentTs, ContentHash, [index : Nat, ts : Nat])
    /\ PartialMap(dedup.custom, CustomKey, Nat)

DedupInv == DedupTyped /\ DedupSound

(* The event at position i as it was logged.                                 *)
Original(i) == get_event_history(i)[1].data

(* No step changes the content an event was logged with.                     *)
LEMMA OriginalKept ==
    ASSUME StoreInv, Step, NEW i \in DOMAIN order
    PROVE  Content(Original(i))' = Content(Original(i))
<1>1. CASE Quiet BY <1>1 DEF Quiet, Original, get_event_history, EventAt
<1>2. CASE \E n \in Nat : Grows(n)
  <2>1. i \in 0..(rs.total - 1) BY DEF StoreInv, StoreConsistent
  <2>2. EventAt(i)' = EventAt(i) /\ versions' = versions
    BY <1>2, <2>1 DEF Grows, OldKept, EventAt
  <2>. QED BY <2>2 DEF Original, get_event_history
<1>3. CASE Amendment
  <2>1. PICK c, k, e, h : Amends(c, k, e, h) BY <1>3 DEF Amendment
  <2>. DEFINE hist  == get_event_history(k)
              hist2 == Append(hist, VersionOf(c, Rehashed(e, IdOf(e, k, h), k)))
  <2>2. /\ versions' = Put(versions, k, hist2) /\ \A v \in 1..Len(hist) : hist2[v] = hist[v]
    BY <2>1, AmendedHistory
  <2>. HIDE DEF hist, hist2
  <2>3. CASE i = k
    <3>1. 1 \in 1..Len(hist) BY <2>3, HistoryType DEF hist
    <3>2. get_event_history(i)' = hist2 BY <2>2, <2>3 DEF get_event_history, Put
    <3>. QED BY <2>2, <2>3, <3>1, <3>2 DEF Original, hist
  <2>4. CASE i # k /\ i \in DOMAIN versions
    <3>1. i \in DOMAIN versions' /\ versions'[i] = versions[i] BY <2>2, <2>4 DEF Put
    <3>. QED BY <2>4, <3>1 DEF Original, get_event_history
  <2>5. CASE i # k /\ i \notin DOMAIN versions
    <3>1. i \notin DOMAIN versions' BY <2>2, <2>5 DEF Put
    <3>2. Original(i) = EventAt(i) /\ Original(i)' = EventAt(i)'
      BY <2>5, <3>1 DEF Original, get_event_history
    <3>3. EventAt(i)'.metadata = EventAt(i).metadata BY <2>1, <2>5, AmendedLog
    <3>. QED BY <3>2, <3>3, EventsStay DEF Content
  <2>. QED BY <2>3, <2>4, <2>5
<1>. QED BY <1>1, <1>2, <1>3 DEF Step

(* An entry that was sound stays sound.                                      *)
LEMMA EntryKept ==
    ASSUME StoreInv, Step, NEW i \in DOMAIN order, NEW c,
           HasContent(get_event_history(i)[1].data, c)
    PROVE  /\ i \in DOMAIN order' /\ HasContent(get_event_history(i)[1].data, c)'
           /\ EventAt(i)'.timestamp = EventAt(i).timestamp
<1>1. i \in DOMAIN order' /\ EventAt(i)'.timestamp = EventAt(i).timestamp BY EventsStay
<1>2. Content(Original(i))' = Content(Original(i)) BY OriginalKept
<1>. QED BY <1>1, <1>2 DEF Content, HasContent, compute_content_hash, Original

(* The original of an event just stored is the event itself.                 *)
LEMMA NewOriginal ==
    ASSUME StoreInv, NEW i, i \notin DOMAIN order, versions' = versions
    PROVE  get_event_history(i)[1].data' = EventAt(i)'
BY DEF StoreInv, HistoryFaithful, get_event_history

(* A step that only drops entries keeps the maps sound.                      *)
LEMMA FewerKeepsDedup ==
    ASSUME StoreInv, Step, DedupInv, DedupTyped',
           \A c \in DOMAIN dedup'.content :
              c \in DOMAIN dedup.content /\ dedup'.content[c] = dedup.content[c],
           \A c \in DOMAIN dedup'.contentTs :
              c \in DOMAIN dedup.contentTs /\ dedup'.contentTs[c] = dedup.contentTs[c]
    PROVE  DedupInv'
<1>1. ASSUME NEW c \in DOMAIN dedup'.content
      PROVE  \E i : /\ dedup'.content[c] = i /\ i \in DOMAIN order'
                    /\ HasContent(get_event_history(i)[1].data, c)'
  <2>1. PICK i : i = dedup.content[c] OBVIOUS
  <2>2. dedup'.content[c] = i /\ i \in DOMAIN order /\ HasContent(get_event_history(i)[1].data, c)
    BY <2>1 DEF DedupInv, DedupSound
  <2>. QED BY <2>2, EntryKept
<1>2. ASSUME NEW c \in DOMAIN dedup'.contentTs
      PROVE  \E e : /\ dedup'.contentTs[c] = e /\ e.index \in DOMAIN order'
                    /\ HasContent(get_event_history(e.index)[1].data, c)'
                    /\ EventAt(e.index)'.timestamp = e.ts
  <2>1. PICK e : e = dedup.contentTs[c] OBVIOUS
  <2>2. /\ dedup'.contentTs[c] = e /\ e.index \in DOMAIN order
        /\ HasContent(get_event_history(e.index)[1].data, c)
        /\ EventAt(e.index).timestamp = e.ts
    BY <2>1 DEF DedupInv, DedupSound
  <2>3. PICK i : i = e.index OBVIOUS
  <2>. QED BY <2>2, <2>3, EntryKept
<1>. QED BY <1>1, <1>2 DEF DedupInv, DedupSound

(* Recording the position of the event just stored.                          *)
LEMMA StoreKeepsDedup ==
    ASSUME StoreInv, Step, DedupInv, NEW s \in Address, NEW t \in EventType,
           NEW m \in Metadata, NEW cat \in Category, NEW h \in Handle,
           NEW key \in Option(CustomKey), StoreEvent(s, t, m, cat, h, key),
           versions' = versions
    PROVE  DedupInv'
<1>1. PICK i \in Nat : /\ i = cfg.total /\ i \notin DOMAIN order
                       /\ DOMAIN order' = DOMAIN order \cup {i}
                       /\ EventAt(i)' = NewEvent(s, t, m, cat, i, NextId(s, t, m, h), PrevHash(i))
  BY StoredAt
<1>. DEFINE c == compute_content_hash(t, s, m, h)
            old == [index |-> i, ts |-> now]
            policy == effective_dedup_policy(t)
<1>2. c \in ContentHash BY DEF compute_content_hash, SymbolPayload, ContentHash
<1>3. now \in Nat BY DEF StoreInv, StoreTypeOK
<1>4. /\ i \in DOMAIN order' /\ HasContent(get_event_history(i)[1].data, c)'
      /\ EventAt(i)'.timestamp = now
  <2>1. get_event_history(i)[1].data' = EventAt(i)' BY <1>1, NewOriginal
  <2>2. /\ EventAt(i)'.event_type = t /\ EventAt(i)'.submitter = s
        /\ EventAt(i)'.metadata = m /\ EventAt(i)'.timestamp = now
    BY <1>1 DEF NewEvent
  <2>. QED BY <1>1, <2>1, <2>2 DEF HasContent
<1>5. dedup' = Recorded(s, t, m, h, key, i) BY <1>1 DEF StoreEvent
<1>6. old \in [index : Nat, ts : Nat] /\ old.index = i /\ old.ts = now BY <1>1, <1>3
<1>. HIDE DEF c, old
<1>7. ASSUME NEW x, x \in DOMAIN dedup.content
      PROVE  \E k : /\ dedup.content[x] = k /\ k \in DOMAIN order'
                    /\ HasContent(get_event_history(k)[1].data, x)'
  <2>1. PICK k : k = dedup.content[x] OBVIOUS
  <2>2. k \in DOMAIN order /\ HasContent(get_event_history(k)[1].data, x)
    BY <1>7, <2>1 DEF DedupInv, DedupSound
  <2>. QED BY <2>1, <2>2, EntryKept
<1>8. ASSUME NEW x, x \in DOMAIN dedup.contentTs
      PROVE  \E e : /\ dedup.contentTs[x] = e /\ e.index \in DOMAIN order'
                    /\ HasContent(get_event_history(e.index)[1].data, x)'
                    /\ EventAt(e.index)'.timestamp = e.ts
  <2>1. PICK e, k : e = dedup.contentTs[x] /\ k = e.index OBVIOUS
  <2>2. /\ k \in DOMAIN order /\ HasContent(get_event_history(k)[1].data, x)
        /\ EventAt(k).timestamp = e.ts
    BY <1>8, <2>1 DEF DedupInv, DedupSound
  <2>. QED BY <2>1, <2>2, EntryKept
<1>9. CASE policy = "ContentHash"
  <2>1. dedup' = [dedup EXCEPT !.content = Put(dedup.content, c, i)]
    BY <1>5, <1>9 DEF Recorded, c
  <2>2. /\ dedup'.policy = dedup.policy /\ dedup'.policyFor = dedup.policyFor
        /\ dedup'.content = Put(dedup.content, c, i)
        /\ dedup'.contentTs = dedup.contentTs /\ dedup'.custom = dedup.custom
        /\ dedup' = [policy |-> dedup'.policy, policyFor |-> dedup'.policyFor,
                     content |-> dedup'.content, contentTs |-> dedup'.contentTs,
                     custom |-> dedup'.custom]
    BY <2>1 DEF DedupInv, DedupTyped
  <2>3. PartialMap(dedup'.content, ContentHash, Nat)
    BY <2>2, <1>1, <1>2, PutTyped DEF DedupInv, DedupTyped
  <2>4. DedupTyped' BY <2>2, <2>3 DEF DedupInv, DedupTyped, PartialMap
  <2>5. ASSUME NEW x \in DOMAIN dedup'.content
        PROVE  \E k : /\ dedup'.content[x] = k /\ k \in DOMAIN order'
                      /\ HasContent(get_event_history(k)[1].data, x)'
    <3>1. CASE x = c BY <3>1, <2>2, <1>4 DEF Put
    <3>2. CASE x # c
      <4>1. x \in DOMAIN dedup.content /\ dedup'.content[x] = dedup.content[x]
        BY <3>2, <2>2 DEF Put
      <4>. QED BY <4>1, <1>7
    <3>. QED BY <3>1, <3>2
  <2>. QED BY <2>2, <2>4, <2>5, <1>8 DEF DedupInv, DedupSound
<1>10. CASE policy = "ContentHashWithTimestamp"
  <2>1. dedup' = [dedup EXCEPT !.contentTs = Put(dedup.contentTs, c, old)]
    BY <1>5, <1>10 DEF Recorded, c, old
  <2>2. /\ dedup'.policy = dedup.policy /\ dedup'.policyFor = dedup.policyFor
        /\ dedup'.content = dedup.content /\ dedup'.custom = dedup.custom
        /\ dedup'.contentTs = Put(dedup.contentTs, c, old)
        /\ dedup' = [policy |-> dedup'.policy, policyFor |-> dedup'.policyFor,
                     content |-> dedup'.content, contentTs |-> dedup'.contentTs,
                     custom |-> dedup'.custom]
    BY <2>1 DEF DedupInv, DedupTyped
  <2>3. PartialMap(dedup'.contentTs, ContentHash, [index : Nat, ts : Nat])
    BY <2>2, <1>2, <1>6 DEF DedupInv, DedupTyped, PartialMap, Put
  <2>4. DedupTyped' BY <2>2, <2>3 DEF DedupInv, DedupTyped, PartialMap
  <2>5. ASSUME NEW x \in DOMAIN dedup'.contentTs
        PROVE  \E e : /\ dedup'.contentTs[x] = e /\ e.index \in DOMAIN order'
                      /\ HasContent(get_event_history(e.index)[1].data, x)'
                      /\ EventAt(e.index)'.timestamp = e.ts
    <3>1. CASE x = c
      <4>1. dedup'.contentTs[x] = old BY <3>1, <2>2 DEF Put
      <4>2. PICK e : e = old OBVIOUS
      <4>. QED BY <3>1, <4>1, <4>2, <1>4, <1>6
    <3>2. CASE x # c
      <4>1. x \in DOMAIN dedup.contentTs /\ dedup'.contentTs[x] = dedup.contentTs[x]
        BY <3>2, <2>2 DEF Put
      <4>. QED BY <4>1, <1>8
    <3>. QED BY <3>1, <3>2
  <2>. QED BY <2>2, <2>4, <2>5, <1>7 DEF DedupInv, DedupSound
<1>11. CASE policy = "Custom" /\ key # {}
  <2>1. PICK k : k = (CHOOSE x \in key : TRUE) /\ k \in CustomKey BY <1>11, OptionTyped
  <2>2. dedup' = [dedup EXCEPT !.custom = Put(dedup.custom, k, i)]
    BY <1>5, <1>11, <2>1 DEF Recorded
  <2>3. /\ dedup'.policy = dedup.policy /\ dedup'.policyFor = dedup.policyFor
        /\ dedup'.content = dedup.content /\ dedup'.contentTs = dedup.contentTs
        /\ dedup'.custom = Put(dedup.custom, k, i)
        /\ dedup' = [policy |-> dedup'.policy, policyFor |-> dedup'.policyFor,
                     content |-> dedup'.content, contentTs |-> dedup'.contentTs,
                     custom |-> dedup'.custom]
    BY <2>2 DEF DedupInv, DedupTyped
  <2>4. PartialMap(dedup'.custom, CustomKey, Nat)
    BY <2>1, <2>3, <1>1, PutTyped DEF DedupInv, DedupTyped
  <2>5. DedupTyped' BY <2>3, <2>4 DEF DedupInv, DedupTyped, PartialMap
  <2>. QED BY <2>3, <2>5, <1>7, <1>8, FewerKeepsDedup DEF DedupInv, DedupSound
<1>12. CASE policy \notin {"ContentHash", "ContentHashWithTimestamp"}
            /\ ~(policy = "Custom" /\ key # {})
  <2>1. dedup' = dedup BY <1>5, <1>12 DEF Recorded
  <2>. QED BY <2>1, FewerKeepsDedup DEF DedupInv, DedupTyped
<1>. QED BY <1>9, <1>10, <1>11, <1>12

(* Every step keeps the deduplication maps.                                  *)
LEMMA StepKeepsDedup ==
    ASSUME StoreInv, DedupInv, [Next]_vars
    PROVE  DedupInv'
<1>1. Step BY NextIsStep
<1>t. DedupTyped BY DEF DedupInv
<1>2. CASE dedup' = dedup BY <1>1, <1>2, FewerKeepsDedup DEF DedupInv, DedupTyped
<1>3. CASE LogCalls
  <2>1. PICK s \in Address, t \in EventType, m \in Metadata, cat \in Category,
             force \in BOOLEAN, h \in Handle, key \in Option(CustomKey) :
             log_event_with_hierarchy(s, t, m, cat, force, h, key)
    BY <1>3, LogCallIsOne
  <2>2. CASE ReturnExisting BY <2>2, <1>2 DEF ReturnExisting
  <2>3. CASE StoreEvent(s, t, m, cat, h, key)
    BY <2>3, <1>1, <1>3, StoreKeepsDedup, LogCallIsOne
  <2>. QED BY <2>1, <2>2, <2>3 DEF log_event_with_hierarchy
<1>4. ASSUME NEW keys, NEW keysTs, NEW content, NEW contentTs,
             content = Without(dedup.content, keys) \/ content = dedup.content,
             contentTs = Without(dedup.contentTs, keysTs) \/ contentTs = dedup.contentTs,
             dedup' = [dedup EXCEPT !.content = content, !.contentTs = contentTs]
      PROVE  DedupInv'
  <2>1. /\ PartialMap(content, ContentHash, Nat)
        /\ PartialMap(contentTs, ContentHash, [index : Nat, ts : Nat])
    BY <1>4, <1>t, WithoutTyped DEF DedupTyped
  <2>2. /\ dedup'.policy = dedup.policy /\ dedup'.policyFor = dedup.policyFor
        /\ dedup'.content = content /\ dedup'.contentTs = contentTs
        /\ dedup'.custom = dedup.custom
        /\ dedup' = [policy |-> dedup'.policy, policyFor |-> dedup'.policyFor,
                     content |-> dedup'.content, contentTs |-> dedup'.contentTs,
                     custom |-> dedup'.custom]
    BY <1>4, <1>t DEF DedupTyped
  <2>3. DedupTyped' BY <2>1, <2>2, <1>t DEF DedupTyped, PartialMap
  <2>4. \A c \in DOMAIN content : c \in DOMAIN dedup.content /\ content[c] = dedup.content[c]
    BY <1>4 DEF Without
  <2>5. \A c \in DOMAIN contentTs : c \in DOMAIN dedup.contentTs /\ contentTs[c] = dedup.contentTs[c]
    BY <1>4 DEF Without
  <2>. QED BY <1>1, <2>2, <2>3, <2>4, <2>5, FewerKeepsDedup
<1>5. CASE HistoryCalls
  <2>1. ASSUME NEW keys, dedup' = [dedup EXCEPT !.content = Without(@, keys)]
        PROVE  DedupInv'
    <3>1. dedup' = [dedup EXCEPT !.content = Without(dedup.content, keys),
                                 !.contentTs = dedup.contentTs]
      BY <2>1, <1>t DEF DedupTyped
    <3>. QED BY <3>1, <1>4
  <2>. QED BY <2>1, <1>2, <1>4, <1>5, HistoryFrame
<1>6. ASSUME NEW policy \in DedupPolicy, NEW policyFor,
             PartialMap(policyFor, EventType, DedupPolicy),
             dedup' = [dedup EXCEPT !.policy = policy, !.policyFor = policyFor]
      PROVE  DedupInv'
  <2>1. /\ dedup'.policy = policy /\ dedup'.policyFor = policyFor
        /\ dedup'.content = dedup.content /\ dedup'.contentTs = dedup.contentTs
        /\ dedup'.custom = dedup.custom
        /\ dedup' = [policy |-> dedup'.policy, policyFor |-> dedup'.policyFor,
                     content |-> dedup'.content, contentTs |-> dedup'.contentTs,
                     custom |-> dedup'.custom]
    BY <1>6, <1>t DEF DedupTyped
  <2>2. DedupTyped' BY <2>1, <1>6, <1>t DEF DedupTyped, PartialMap
  <2>. QED BY <1>1, <2>1, <2>2, FewerKeepsDedup
<1>7. CASE LimitCalls
  <2>1. ASSUME NEW c \in Address, NEW p \in DedupPolicy, set_dedup_policy(c, p) PROVE DedupInv'
    <3>1. dedup' = [dedup EXCEPT !.policy = p, !.policyFor = dedup.policyFor]
      BY <2>1, <1>t DEF set_dedup_policy, DedupTyped
    <3>. QED BY <3>1, <1>6, <1>t DEF DedupTyped
  <2>2. ASSUME NEW c \in Address, NEW t \in EventType, NEW p \in Option(DedupPolicy),
               set_dedup_policy_for_type(c, t, p)
        PROVE  DedupInv'
    <3>1. PICK f : /\ f = IF p = {} THEN Drop(dedup.policyFor, t)
                          ELSE Put(dedup.policyFor, t, CHOOSE x \in p : TRUE)
                   /\ dedup' = [dedup EXCEPT !.policyFor = f]
      BY <2>2 DEF set_dedup_policy_for_type
    <3>2. PartialMap(f, EventType, DedupPolicy)
      BY <3>1, <1>t, OptionTyped, DropTyped, PutTyped DEF DedupTyped
    <3>3. dedup' = [dedup EXCEPT !.policy = dedup.policy, !.policyFor = f]
      BY <3>1, <1>t DEF DedupTyped
    <3>. QED BY <3>2, <3>3, <1>6, <1>t DEF DedupTyped
  <2>. QED BY <2>1, <2>2, <1>2, <1>7, LimitFrame
<1>. QED BY <1>2, <1>3, <1>5, <1>7, BatchFrame, NonceFrame, AccessFrame, OwnerFrame,
            ProposalFrame, HostFrame DEF Next

(* The deduplication invariant holds in every reachable state.               *)
THEOREM DedupInvariant == Spec => []DedupInv
<1>1. Init => DedupInv
  BY DEF Init, EmptyMap, DedupInv, DedupTyped, DedupSound, PartialMap, DedupPolicy
<1>2. StoreInv /\ DedupInv /\ [Next]_vars => DedupInv' BY StepKeepsDedup
<1>. QED BY <1>1, <1>2, StoreInvariant, PTL DEF Spec

(* A deduplication entry of lib.rs always leads to an event that was logged  *)
(* with that content, whatever was forced, amended or cleaned up since.      *)
THEOREM DedupStaysSound == Spec => []DedupSound
<1>1. DedupInv => DedupSound BY DEF DedupInv
<1>. QED BY <1>1, DedupInvariant, PTL

-----------------------------------------------------------------------------
(* The owner list after the loop of remove_owner.                            *)

(* A set of numbers has a least one: induction on a counter, as an argument  *)
(* about the least counterexample.                                           *)
LEMMA LeastNumber ==
    ASSUME NEW T \in SUBSET Nat, T # {}
    PROVE  \E x \in T : \A y \in T : x <= y
<1>1. \E x \in T : \A y \in T : ~(<<y, x>> \in OpToRel(<, Nat))
  BY WFMin, NatLessThanWellFounded
<1>2. PICK x \in T : \A y \in T : ~(<<y, x>> \in OpToRel(<, Nat)) BY <1>1
<1>3. \A y \in T : ~(y < x) BY <1>2 DEF OpToRel
<1>. QED BY <1>3

(* g[k] is what the loop has kept of the first k owners, for k up to n.      *)
Filters(g, n, q, a) ==
    g = [k \in 0..n |-> IF k = 0 THEN <<>>
                        ELSE IF q[k] = a THEN g[k - 1]
                        ELSE Append(g[k - 1], q[k])]

(* The loop can run any number of rounds.                                    *)
LEMMA FilterExists ==
    ASSUME NEW S, NEW q \in Seq(S), NEW a
    PROVE  \A n \in Nat : \E g : Filters(g, n, q, a)
<1>. DEFINE T == {n \in Nat : ~\E g : Filters(g, n, q, a)}
<1>1. SUFFICES ASSUME T # {} PROVE FALSE OBVIOUS
<1>2. PICK n \in T : \A m \in T : n <= m
  <2>. HIDE DEF T
  <2>1. T \in SUBSET Nat BY DEF T
  <2>. QED BY <1>1, <2>1, LeastNumber
<1>3. CASE n = 0
  <2>1. Filters([k \in 0..0 |-> <<>>], 0, q, a) BY DEF Filters
  <2>. QED BY <1>3, <2>1
<1>4. CASE n # 0
  <2>1. n - 1 \in Nat /\ n \in Nat /\ n - 1 \notin T BY <1>2, <1>4
  <2>2. PICK g : Filters(g, n - 1, q, a) BY <2>1
  <2>. DEFINE last == IF q[n] = a THEN g[n - 1] ELSE Append(g[n - 1], q[n])
              f == [k \in 0..n |-> IF k = n THEN last ELSE g[k]]
  <2>. HIDE DEF last
  <2>3. \A k \in 0..(n - 1) : /\ g[k] = IF k = 0 THEN <<>>
                                        ELSE IF q[k] = a THEN g[k - 1]
                                        ELSE Append(g[k - 1], q[k])
    BY <2>2 DEF Filters
  <2>4. \A k \in 1..n : k - 1 \in 0..(n - 1) /\ f[k - 1] = g[k - 1] BY <2>1
  <2>5. \A k \in 0..n : f[k] = IF k = 0 THEN <<>>
                               ELSE IF q[k] = a THEN f[k - 1]
                               ELSE Append(f[k - 1], q[k])
    <3>. TAKE k \in 0..n
    <3>1. CASE k = n BY <3>1, <2>1, <2>4, <1>4 DEF last
    <3>2. CASE k # n /\ k # 0 BY <3>2, <2>1, <2>3, <2>4
    <3>3. CASE k # n /\ k = 0 BY <3>3, <2>1, <2>3
    <3>. QED BY <3>1, <3>2, <3>3
  <2>. HIDE DEF f
  <2>6. f = [k \in 0..n |-> f[k]] BY DEF f
  <2>7. Filters(f, n, q, a) BY <2>5, <2>6 DEF Filters
  <2>. QED BY <2>7, <1>2
<1>. QED BY <1>3, <1>4

(* It keeps a list of owners.                                                *)
LEMMA FilterTyped ==
    ASSUME NEW S, NEW q \in Seq(S), NEW a, NEW len \in Nat, len <= Len(q),
           NEW g, Filters(g, len, q, a)
    PROVE  \A n \in 0..len : g[n] \in Seq(S)
<1>. DEFINE T == {n \in 0..len : g[n] \notin Seq(S)}
<1>1. SUFFICES ASSUME T # {} PROVE FALSE OBVIOUS
<1>2. PICK n \in T : \A m \in T : n <= m
  <2>. HIDE DEF T
  <2>1. T \in SUBSET Nat BY DEF T
  <2>. QED BY <1>1, <2>1, LeastNumber
<1>3. g[n] = IF n = 0 THEN <<>> ELSE IF q[n] = a THEN g[n - 1] ELSE Append(g[n - 1], q[n])
  BY DEF Filters
<1>4. CASE n = 0
  <2>1. <<>> \in Seq(S) OBVIOUS
  <2>. QED BY <2>1, <1>3, <1>4
<1>5. CASE n # 0
  <2>1. n - 1 \in 0..len /\ n - 1 \notin T /\ n \in 1..Len(q) BY <1>2, <1>5
  <2>2. g[n - 1] \in Seq(S) /\ q[n] \in S BY <2>1
  <2>3. Append(g[n - 1], q[n]) \in Seq(S) BY <2>2, AppendProperties
  <2>. QED BY <1>3, <1>5, <2>2, <2>3
<1>. QED BY <1>4, <1>5

(* Removing an owner leaves a list of owners.                                *)
LEMMA RemoveAllTyped ==
    ASSUME NEW S, NEW q \in Seq(S), NEW a
    PROVE  RemoveAll(q, a) \in Seq(S)
<1>. DEFINE kept == CHOOSE g : g = [n \in 0..Len(q) |-> IF n = 0 THEN <<>>
            ELSE IF q[n] = a THEN g[n - 1]
            ELSE Append(g[n - 1], q[n])]
<1>1. RemoveAll(q, a) = kept[Len(q)] BY DEF RemoveAll
<1>2. Len(q) \in Nat OBVIOUS
<1>3. PICK g : Filters(g, Len(q), q, a) BY <1>2, FilterExists
<1>4. Filters(kept, Len(q), q, a) BY <1>3 DEF Filters
<1>. HIDE DEF kept
<1>. QED BY <1>1, <1>2, <1>4, FilterTyped

-----------------------------------------------------------------------------
(* Nonces, rates, signatures.                                                *)

NoncesTyped ==
    /\ nonces = [state |-> nonces.state, config |-> nonces.config,
                 window |-> nonces.window, max |-> nonces.max]
    /\ nonces.window \in Nat /\ nonces.max \in Nat
    /\ PartialMap(nonces.state, Address, NonceState)
    /\ PartialMap(nonces.config, Address, NonceState)

(* What the nonce checks read.                                               *)
LEMMA NonceReads ==
    ASSUME NoncesTyped, NEW s \in Address
    PROVE  StoredNonce(s) \in NonceState /\ EffectiveNonce(s) \in NonceState
<1>. DEFINE fresh == [last |-> 0, window |-> nonces.window, max |-> nonces.max]
<1>1. fresh \in NonceState BY DEF NoncesTyped, NonceState
<1>. HIDE DEF fresh
<1>2. StoredNonce(s) \in NonceState
  BY <1>1, GetOrTyped DEF NoncesTyped, StoredNonce, fresh
<1>3. EffectiveNonce(s) \in NonceState
  BY <1>2, GetOrTyped DEF NoncesTyped, EffectiveNonce
<1>. QED BY <1>2, <1>3

(* The four ways nonces change.                                              *)
NonceMove ==
    \/ nonces' = nonces
    \/ \E s \in Address, n \in Nat :
          /\ NonceAccepted(s, n)
          /\ nonces' = [nonces EXCEPT !.state =
                          Put(@, s, [EffectiveNonce(s) EXCEPT !.last = n])]
    \/ \E s \in Address, w, n \in Nat :
          nonces' = [nonces EXCEPT !.config =
                       Put(@, s, [last |-> StoredNonce(s).last, window |-> w, max |-> n])]
    \/ \E s \in Address :
          nonces' = [nonces EXCEPT !.state = Put(@, s, [StoredNonce(s) EXCEPT !.last = 0]),
                                   !.config = Drop(@, s)]
    \/ \E w, n \in Nat : nonces' = [nonces EXCEPT !.window = w, !.max = n]

(* Every step moves nonces in one of these ways.                             *)
LEMMA StepMovesNonces ==
    ASSUME [Next]_vars
    PROVE  NonceMove
<1>0. Nonce \subseteq Nat BY InputsAssumption
<1>1. CASE LogCalls
  <2>1. PICK s \in Address, t \in EventType, m \in Metadata, h \in Handle :
          \/ \E cat \in Category, force \in BOOLEAN : log_event(s, t, m, cat, force, h)
          \/ \E cat \in Category, force \in BOOLEAN, key \in Option(CustomKey) :
                log_event_with_custom_key(s, t, m, cat, force, h, key)
          \/ log_event_signed(s, t, m, h)
          \/ \E n \in Nonce : log_event_with_nonce(s, t, m, n, h)
    BY <1>1 DEF LogCalls
  <2>2. ASSUME NEW n \in Nonce, log_event_with_nonce(s, t, m, n, h) PROVE NonceMove
    <3>1. n \in Nat BY <1>0
    <3>. QED BY <2>2, <3>1 DEF log_event_with_nonce, NonceMove
  <2>. QED BY <2>1, <2>2 DEF log_event, log_event_with_custom_key, log_event_signed,
                             extraVars, NonceMove
<1>2. CASE NonceCalls
  <2>1. ASSUME NEW c \in Address, NEW s \in Address, NEW w \in Nonce, NEW n \in Nonce,
               set_submitter_nonce_config(c, s, w, n)
        PROVE  NonceMove
    <3>1. w \in Nat /\ n \in Nat BY <1>0
    <3>2. nonces' = [nonces EXCEPT !.config =
                       Put(@, s, [last |-> StoredNonce(s).last, window |-> w, max |-> n])]
      BY <2>1 DEF set_submitter_nonce_config
    <3>. QED BY <3>1, <3>2 DEF NonceMove
  <2>2. ASSUME NEW c \in Address, NEW s \in Address, reset_submitter_nonce(c, s)
        PROVE  NonceMove
    BY <2>2 DEF reset_submitter_nonce, NonceMove
  <2>3. ASSUME NEW c \in Address, NEW w \in Nonce, NEW n \in Nonce,
               set_default_nonce_config(c, w, n)
        PROVE  NonceMove
    <3>1. w \in Nat /\ n \in Nat BY <1>0
    <3>. QED BY <2>3, <3>1 DEF set_default_nonce_config, NonceMove
  <2>. QED BY <1>2, <2>1, <2>2, <2>3 DEF NonceCalls
<1>. QED BY <1>1, <1>2, BatchFrame, HistoryFrame, AccessFrame, LimitFrame, OwnerFrame,
            ProposalFrame, HostFrame DEF Next, NonceMove

(* Nonces keep their types.                                                  *)
LEMMA MoveKeepsNonces ==
    ASSUME NoncesTyped, NonceMove
    PROVE  NoncesTyped'
<1>1. ASSUME NEW state, NEW config, NEW w \in Nat, NEW n \in Nat,
             PartialMap(state, Address, NonceState), PartialMap(config, Address, NonceState),
             nonces' = [nonces EXCEPT !.state = state, !.config = config,
                                      !.window = w, !.max = n]
      PROVE  NoncesTyped'
  <2>1. /\ nonces'.state = state /\ nonces'.config = config
        /\ nonces'.window = w /\ nonces'.max = n
        /\ nonces' = [state |-> nonces'.state, config |-> nonces'.config,
                      window |-> nonces'.window, max |-> nonces'.max]
    BY <1>1 DEF NoncesTyped
  <2>. QED BY <1>1, <2>1 DEF NoncesTyped, PartialMap
<1>2. CASE nonces' = nonces BY <1>2 DEF NoncesTyped
<1>3. ASSUME NEW s \in Address, NEW n \in Nat,
             nonces' = [nonces EXCEPT !.state =
                          Put(@, s, [EffectiveNonce(s) EXCEPT !.last = n])]
      PROVE  NoncesTyped'
  <2>1. [EffectiveNonce(s) EXCEPT !.last = n] \in NonceState BY NonceReads DEF NonceState
  <2>2. PICK f : f = Put(nonces.state, s, [EffectiveNonce(s) EXCEPT !.last = n]) OBVIOUS
  <2>3. PartialMap(f, Address, NonceState) BY <2>1, <2>2, PutTyped DEF NoncesTyped
  <2>4. nonces' = [nonces EXCEPT !.state = f, !.config = nonces.config,
                                 !.window = nonces.window, !.max = nonces.max]
    BY <1>3, <2>2 DEF NoncesTyped
  <2>. QED BY <1>1, <2>3, <2>4 DEF NoncesTyped
<1>4. ASSUME NEW s \in Address, NEW w \in Nat, NEW n \in Nat,
             nonces' = [nonces EXCEPT !.config =
                          Put(@, s, [last |-> StoredNonce(s).last, window |-> w, max |-> n])]
      PROVE  NoncesTyped'
  <2>1. [last |-> StoredNonce(s).last, window |-> w, max |-> n] \in NonceState
    BY NonceReads DEF NonceState
  <2>2. PICK f : f = Put(nonces.config, s,
                         [last |-> StoredNonce(s).last, window |-> w, max |-> n])
    OBVIOUS
  <2>3. PartialMap(f, Address, NonceState) BY <2>1, <2>2, PutTyped DEF NoncesTyped
  <2>4. nonces' = [nonces EXCEPT !.state = nonces.state, !.config = f,
                                 !.window = nonces.window, !.max = nonces.max]
    BY <1>4, <2>2 DEF NoncesTyped
  <2>. QED BY <1>1, <2>3, <2>4 DEF NoncesTyped
<1>5. ASSUME NEW s \in Address,
             nonces' = [nonces EXCEPT !.state = Put(@, s, [StoredNonce(s) EXCEPT !.last = 0]),
                                      !.config = Drop(@, s)]
      PROVE  NoncesTyped'
  <2>1. [StoredNonce(s) EXCEPT !.last = 0] \in NonceState BY NonceReads DEF NonceState
  <2>2. PICK f, g : /\ f = Put(nonces.state, s, [StoredNonce(s) EXCEPT !.last = 0])
                    /\ g = Drop(nonces.config, s)
    OBVIOUS
  <2>3. PartialMap(f, Address, NonceState) /\ PartialMap(g, Address, NonceState)
    BY <2>1, <2>2, PutTyped, DropTyped DEF NoncesTyped
  <2>4. nonces' = [nonces EXCEPT !.state = f, !.config = g,
                                 !.window = nonces.window, !.max = nonces.max]
    BY <1>5, <2>2 DEF NoncesTyped
  <2>. QED BY <1>1, <2>3, <2>4 DEF NoncesTyped
<1>6. ASSUME NEW w \in Nat, NEW n \in Nat,
             nonces' = [nonces EXCEPT !.window = w, !.max = n]
      PROVE  NoncesTyped'
  <2>1. nonces' = [nonces EXCEPT !.state = nonces.state, !.config = nonces.config,
                                 !.window = w, !.max = n]
    BY <1>6 DEF NoncesTyped
  <2>. QED BY <1>1, <2>1 DEF NoncesTyped
<1>. QED BY <1>2, <1>3, <1>4, <1>5, <1>6 DEF NonceMove

(* A nonce accepted without a configuration of the submitter's own exceeds   *)
(* the last one.                                                             *)
LEMMA MoveOrdersNonces ==
    ASSUME NoncesTyped, NonceMove, NEW s \in Address, s \notin DOMAIN nonces.config
    PROVE  StoredNonce(s)'.last >= StoredNonce(s).last \/ StoredNonce(s)'.last = 0
<1>. DEFINE old == StoredNonce(s)
<1>1. old \in NonceState /\ old.last \in Nat BY NonceReads DEF NonceState
<1>2. old.last = (IF s \in DOMAIN nonces.state THEN nonces.state[s].last ELSE 0)
  BY DEF StoredNonce, GetOr
<1>3. StoredNonce(s)'.last = (IF s \in DOMAIN nonces'.state THEN nonces'.state[s].last ELSE 0)
  BY DEF StoredNonce, GetOr
<1>4. CASE nonces'.state = nonces.state BY <1>1, <1>2, <1>3, <1>4
<1>5. ASSUME NEW a \in Address, NEW n \in Nat, NonceAccepted(a, n),
             nonces' = [nonces EXCEPT !.state =
                          Put(@, a, [EffectiveNonce(a) EXCEPT !.last = n])]
      PROVE  StoredNonce(s)'.last >= old.last
  <2>1. PICK r : r = [EffectiveNonce(a) EXCEPT !.last = n] OBVIOUS
  <2>2. r.last = n BY <2>1, NonceReads DEF NonceState
  <2>3. nonces'.state = Put(nonces.state, a, r) BY <1>5, <2>1 DEF NoncesTyped
  <2>4. CASE a = s
    <3>1. EffectiveNonce(s) = old BY DEF EffectiveNonce, GetOr
    <3>2. n > old.last BY <1>5, <2>4, <3>1 DEF NonceAccepted
    <3>3. StoredNonce(s)'.last = n BY <1>3, <2>2, <2>3, <2>4 DEF Put
    <3>. QED BY <3>2, <3>3, <1>1
  <2>5. CASE a # s
    <3>1. StoredNonce(s)'.last = old.last BY <1>2, <1>3, <2>3, <2>5 DEF Put
    <3>. QED BY <3>1, <1>1
  <2>. QED BY <2>4, <2>5
<1>6. ASSUME NEW a \in Address,
             nonces' = [nonces EXCEPT !.state = Put(@, a, [StoredNonce(a) EXCEPT !.last = 0]),
                                      !.config = Drop(@, a)]
      PROVE  StoredNonce(s)'.last >= old.last \/ StoredNonce(s)'.last = 0
  <2>1. PICK r : r = [StoredNonce(a) EXCEPT !.last = 0] OBVIOUS
  <2>2. r.last = 0 BY <2>1, NonceReads DEF NonceState
  <2>3. nonces'.state = Put(nonces.state, a, r) BY <1>6, <2>1 DEF NoncesTyped
  <2>4. CASE a = s BY <1>3, <2>2, <2>3, <2>4 DEF Put
  <2>5. CASE a # s
    <3>1. StoredNonce(s)'.last = old.last BY <1>2, <1>3, <2>3, <2>5 DEF Put
    <3>. QED BY <3>1, <1>1
  <2>. QED BY <2>4, <2>5
<1>7. nonces'.state = nonces.state
      \/ (\E a \in Address, n \in Nat :
            /\ NonceAccepted(a, n)
            /\ nonces' = [nonces EXCEPT !.state =
                            Put(@, a, [EffectiveNonce(a) EXCEPT !.last = n])])
      \/ (\E a \in Address :
            nonces' = [nonces EXCEPT !.state = Put(@, a, [StoredNonce(a) EXCEPT !.last = 0]),
                                     !.config = Drop(@, a)])
  BY DEF NonceMove, NoncesTyped
<1>. QED BY <1>4, <1>5, <1>6, <1>7

(* The nonces always have the types the contract reads them with.            *)
THEOREM NoncesStayTyped == Spec => []NoncesTyped
<1>1. Init => NoncesTyped
  BY DeployAssumption DEF Init, EmptyMap, NoncesTyped, PartialMap
<1>2. NoncesTyped /\ [Next]_vars => NoncesTyped' BY StepMovesNonces, MoveKeepsNonces
<1>. QED BY <1>1, <1>2, PTL DEF Spec

(* The last nonce accepted from a submitter without a configuration of its   *)
(* own never goes back, except to 0 by an owner's reset.                     *)
THEOREM NoncesNeverReused == Spec => NonceNeverReused
<1>1. NoncesTyped /\ [Next]_vars =>
        [\A s \in Address \ DOMAIN nonces.config :
            \/ StoredNonce(s)'.last >= StoredNonce(s).last
            \/ StoredNonce(s)'.last = 0]_vars
  BY StepMovesNonces, MoveOrdersNonces
<1>. QED BY <1>1, NoncesStayTyped, PTL DEF Spec, NonceNeverReused

-----------------------------------------------------------------------------
(* Rates, the guard, signatures, access lists, limits, owners.               *)

RatesTyped == rateState \in [Address -> [ts : Nat, count : Nat]]

SigsTyped == guard \in BOOLEAN /\ sigs \subseteq EventId

AccessTyped ==
    access \in [paused : BOOLEAN, blocked : SUBSET Address, allowMode : BOOLEAN,
                allowed : SUBSET Address, lowCost : BOOLEAN]

LimitsTyped ==
    /\ limits = [cap |-> limits.cap, size |-> limits.size, sizeFor |-> limits.sizeFor,
                 schema |-> limits.schema, rate |-> limits.rate]
    /\ limits.size \in Nat
    /\ PartialMap(limits.cap, EventType, Nat)
    /\ PartialMap(limits.sizeFor, EventType, Nat)
    /\ PartialMap(limits.schema, EventType, Nat)
    /\ PartialMap(limits.rate, Address, Nat)

AuthTyped ==
    /\ auth = [owner |-> auth.owner, owners |-> auth.owners, required |-> auth.required,
               roles |-> auth.roles, rbac |-> auth.rbac]
    /\ auth.owner \in Address /\ auth.owners \in Seq(Address)
    /\ auth.required \in Nat /\ auth.rbac \in BOOLEAN
    /\ PartialMap(auth.roles, Address, Role)

(* The rate counters keep their types.                                       *)
LEMMA StepKeepsRates ==
    ASSUME StoreInv, RatesTyped, [Next]_vars
    PROVE  RatesTyped'
<1>1. CASE rateState' = rateState BY <1>1 DEF RatesTyped
<1>2. CASE LogCalls
  <2>1. PICK s \in Address : rateState' = RateCharged(s)
    BY <1>2, LogCallIsOne DEF log_event_with_hierarchy
  <2>2. now \in Nat /\ RateUsed(s) + 1 \in Nat
    BY DEF StoreInv, StoreTypeOK, RateUsed, RatesTyped
  <2>3. PICK r \in [ts : Nat, count : Nat] : r = [ts |-> now, count |-> RateUsed(s) + 1]
    BY <2>2
  <2>4. rateState' = rateState \/ rateState' = [rateState EXCEPT ![s] = r]
    BY <2>1, <2>3 DEF RateCharged
  <2>. QED BY <2>4 DEF RatesTyped
<1>. QED BY <1>1, <1>2, BatchFrame, NonceFrame, HistoryFrame, AccessFrame, LimitFrame,
            OwnerFrame, ProposalFrame, HostFrame DEF Next

(* A signature is stored under the id of an event.                           *)
LEMMA StepKeepsSigs ==
    ASSUME StoreInv, SigsTyped, [Next]_vars
    PROVE  SigsTyped'
<1>1. CASE sigs' = sigs /\ (guard' = guard \/ guard' \in BOOLEAN) BY <1>1 DEF SigsTyped
<1>2. CASE LogCalls
  <2>1. guard' \in BOOLEAN
    <3>1. PICK s \in Address, t \in EventType, m \in Metadata, cat \in Category,
               force \in BOOLEAN, h \in Handle, key \in Option(CustomKey) :
               log_event_with_hierarchy(s, t, m, cat, force, h, key)
      BY <1>2, LogCallIsOne
    <3>2. StoreEvent(s, t, m, cat, h, key) => guard' = FALSE BY DEF StoreEvent
    <3>. QED BY <3>1, <3>2 DEF log_event_with_hierarchy, ReturnExisting
  <2>2. PICK s \in Address, t \in EventType, m \in Metadata, h \in Handle :
          \/ \E cat \in Category, force \in BOOLEAN : log_event(s, t, m, cat, force, h)
          \/ \E cat \in Category, force \in BOOLEAN, key \in Option(CustomKey) :
                log_event_with_custom_key(s, t, m, cat, force, h, key)
          \/ log_event_signed(s, t, m, h)
          \/ \E n \in Nonce : log_event_with_nonce(s, t, m, n, h)
    BY <1>2 DEF LogCalls
  <2>3. LoggedId(s, t, m, h) \in EventId
    <3>. DEFINE dups == DuplicatesOf(s, t, m, h, {})
    <3>1. dups \subseteq DOMAIN order BY DEF DuplicatesOf
    <3>. HIDE DEF dups
    <3>2. dups # {} => (CHOOSE i \in dups : TRUE) \in DOMAIN order BY <3>1
    <3>3. \A i \in DOMAIN order : order[i] \in EventId
      BY DEF StoreInv, StoreTypeOK, PartialMap
    <3>4. cfg.total \in Nat /\ now \in Nat BY DEF StoreInv, StoreTypeOK
    <3>5. NextId(s, t, m, h) \in EventId BY <3>4, EventIdType DEF NextId
    <3>6. LoggedId(s, t, m, h) = IF dups # {} THEN order[CHOOSE i \in dups : TRUE]
                                 ELSE NextId(s, t, m, h)
      BY DEF LoggedId, dups
    <3>. QED BY <3>2, <3>3, <3>5, <3>6
  <2>4. sigs' = sigs \/ sigs' = sigs \cup {LoggedId(s, t, m, h)}
    BY <2>2 DEF log_event, log_event_with_custom_key, log_event_signed,
                log_event_with_nonce, extraVars
  <2>. QED BY <2>1, <2>3, <2>4 DEF SigsTyped
<1>. QED BY <1>1, <1>2, BatchFrame, NonceFrame, HistoryFrame, AccessFrame, LimitFrame,
            OwnerFrame, ProposalFrame, HostFrame DEF Next

(* The access lists keep their types.                                        *)
LEMMA StepKeepsAccess ==
    ASSUME AccessTyped, [Next]_vars
    PROVE  AccessTyped'
<1>1. CASE access' = access BY <1>1 DEF AccessTyped
<1>2. CASE AccessCalls
  <2>1. \/ \E b \in BOOLEAN : \/ access' = [access EXCEPT !.paused = b]
                            \/ access' = [access EXCEPT !.allowMode = b]
                            \/ access' = [access EXCEPT !.lowCost = b]
        \/ \E s \in Address : \/ access' = [access EXCEPT !.blocked = @ \cup {s}]
                             \/ access' = [access EXCEPT !.blocked = @ \ {s}]
                             \/ access' = [access EXCEPT !.allowed = @ \cup {s}]
                             \/ access' = [access EXCEPT !.allowed = @ \ {s}]
    BY <1>2, Zenon DEF AccessCalls, pause, unpause, block_submitter, unblock_submitter,
       enable_allowlist_mode, disable_allowlist_mode, allow_submitter,
       remove_submitter_from_allowlist, set_low_cost_mode
  <2>2. ASSUME NEW b \in BOOLEAN, \/ access' = [access EXCEPT !.paused = b]
                                  \/ access' = [access EXCEPT !.allowMode = b]
                                  \/ access' = [access EXCEPT !.lowCost = b]
        PROVE  AccessTyped'
    BY <2>2 DEF AccessTyped
  <2>3. ASSUME NEW S \in SUBSET Address, \/ access' = [access EXCEPT !.blocked = S]
                                         \/ access' = [access EXCEPT !.allowed = S]
        PROVE  AccessTyped'
    BY <2>3 DEF AccessTyped
  <2>4. access.blocked \in SUBSET Address /\ access.allowed \in SUBSET Address
    BY DEF AccessTyped
  <2>. QED BY <2>1, <2>2, <2>3, <2>4
<1>3. ASSUME NEW c \in Address, NEW p \in DOMAIN proposals, NEW h \in Handle,
             execute_proposal(c, p, h)
      PROVE  AccessTyped'
  <2>1. PICK b \in BOOLEAN : access' = access \/ access' = [access EXCEPT !.paused = b]
    BY <1>3 DEF execute_proposal, AccessAfter
  <2>. QED BY <2>1 DEF AccessTyped
<1>. QED BY <1>1, <1>2, <1>3, LogCallIsOne, BatchFrame, NonceFrame, HistoryFrame, LimitFrame,
            OwnerFrame, ProposalFrame, HostFrame DEF Next

(* The limits keep their types.                                              *)
LEMMA StepKeepsLimits ==
    ASSUME StoreInv, LimitsTyped, [Next]_vars
    PROVE  LimitsTyped'
<1>0. LogLimit \subseteq Nat /\ SizeLimit \subseteq Nat BY InputsAssumption
<1>1. CASE limits' = limits BY <1>1 DEF LimitsTyped
<1>2. ASSUME NEW cap, NEW size \in Nat, NEW sizeFor, NEW schema, NEW rate,
             PartialMap(cap, EventType, Nat), PartialMap(sizeFor, EventType, Nat),
             PartialMap(schema, EventType, Nat), PartialMap(rate, Address, Nat),
             limits' = [cap |-> cap, size |-> size, sizeFor |-> sizeFor,
                        schema |-> schema, rate |-> rate]
      PROVE  LimitsTyped'
  BY <1>2 DEF LimitsTyped
<1>3. ASSUME NEW t \in EventType, NEW n \in Nat,
             \/ limits' = [limits EXCEPT !.cap = Put(@, t, n)]
             \/ limits' = [limits EXCEPT !.cap = Drop(@, t)]
      PROVE  LimitsTyped'
  <2>1. PICK f : /\ f = Put(limits.cap, t, n) \/ f = Drop(limits.cap, t)
                 /\ limits' = [limits EXCEPT !.cap = f]
    BY <1>3
  <2>2. PartialMap(f, EventType, Nat) BY <2>1, PutTyped, DropTyped DEF LimitsTyped
  <2>3. limits' = [cap |-> f, size |-> limits.size, sizeFor |-> limits.sizeFor,
                   schema |-> limits.schema, rate |-> limits.rate]
    BY <2>1 DEF LimitsTyped
  <2>. QED BY <2>2, <2>3, <1>2 DEF LimitsTyped
<1>4. ASSUME NEW n \in Nat, limits' = [limits EXCEPT !.size = n]
      PROVE  LimitsTyped'
  <2>1. limits' = [cap |-> limits.cap, size |-> n, sizeFor |-> limits.sizeFor,
                   schema |-> limits.schema, rate |-> limits.rate]
    BY <1>4 DEF LimitsTyped
  <2>. QED BY <2>1, <1>2 DEF LimitsTyped
<1>5. ASSUME NEW t \in EventType, NEW n \in Nat,
             limits' = [limits EXCEPT !.sizeFor = Put(@, t, n)]
      PROVE  LimitsTyped'
  <2>1. PICK f : f = Put(limits.sizeFor, t, n) OBVIOUS
  <2>2. PartialMap(f, EventType, Nat) BY <2>1, PutTyped DEF LimitsTyped
  <2>3. limits' = [cap |-> limits.cap, size |-> limits.size, sizeFor |-> f,
                   schema |-> limits.schema, rate |-> limits.rate]
    BY <1>5, <2>1 DEF LimitsTyped
  <2>. QED BY <2>2, <2>3, <1>2 DEF LimitsTyped
<1>6. ASSUME NEW t \in EventType, NEW n \in Nat,
             limits' = [limits EXCEPT !.schema = Put(@, t, n)]
      PROVE  LimitsTyped'
  <2>1. PICK f : f = Put(limits.schema, t, n) OBVIOUS
  <2>2. PartialMap(f, EventType, Nat) BY <2>1, PutTyped DEF LimitsTyped
  <2>3. limits' = [cap |-> limits.cap, size |-> limits.size, sizeFor |-> limits.sizeFor,
                   schema |-> f, rate |-> limits.rate]
    BY <1>6, <2>1 DEF LimitsTyped
  <2>. QED BY <2>2, <2>3, <1>2 DEF LimitsTyped
<1>7. ASSUME NEW s \in Address, NEW n \in Nat,
             limits' = [limits EXCEPT !.rate = Put(@, s, n)]
      PROVE  LimitsTyped'
  <2>1. PICK f : f = Put(limits.rate, s, n) OBVIOUS
  <2>2. PartialMap(f, Address, Nat) BY <2>1, PutTyped DEF LimitsTyped
  <2>3. limits' = [cap |-> limits.cap, size |-> limits.size, sizeFor |-> limits.sizeFor,
                   schema |-> limits.schema, rate |-> f]
    BY <1>7, <2>1 DEF LimitsTyped
  <2>. QED BY <2>2, <2>3, <1>2 DEF LimitsTyped
<1>8. CASE LimitCalls
  <2>1. \/ limits' = limits
        \/ \E t \in EventType, n \in Nat :
             \/ limits' = [limits EXCEPT !.cap = Put(@, t, n)]
             \/ limits' = [limits EXCEPT !.sizeFor = Put(@, t, n)]
             \/ limits' = [limits EXCEPT !.schema = Put(@, t, n)]
        \/ \E t \in EventType : limits' = [limits EXCEPT !.cap = Drop(@, t)]
        \/ \E n \in Nat : limits' = [limits EXCEPT !.size = n]
        \/ \E s \in Address, n \in Nat : limits' = [limits EXCEPT !.rate = Put(@, s, n)]
    BY <1>0, <1>8 DEF LimitCalls, set_global_max_logs, set_metadata_max_size,
       set_submitter_rate_limit, compact_storage, set_dedup_policy, set_event_max_logs,
       remove_event_cap, set_event_metadata_max_size, set_metadata_schema,
       set_dedup_policy_for_type, govVars, DedupOnly
  <2>2. ASSUME NEW t \in EventType, limits' = [limits EXCEPT !.cap = Drop(@, t)]
        PROVE  LimitsTyped'
    <3>1. PICK n \in Nat : TRUE OBVIOUS
    <3>. QED BY <2>2, <1>3
  <2>. QED BY <2>1, <2>2, <1>1, <1>3, <1>4, <1>5, <1>6, <1>7
<1>9. ASSUME NEW c \in Address, NEW p \in DOMAIN proposals, NEW h \in Handle,
             execute_proposal(c, p, h)
      PROVE  LimitsTyped'
  <2>. DEFINE a == proposals[p].action
  <2>1. limits' = LimitsAfter(a) BY <1>9 DEF execute_proposal
  <2>p. proposals[p] \in Proposal BY DEF StoreInv, StoreTypeOK
  <2>2. a \in ProposalAction BY <2>p DEF Proposal
  <2>3. CASE a.kind = "SetMetadataSchema"
    <3>1. a.event_type \in EventType /\ a.min_len \in Nat BY <2>2, <2>3 DEF ProposalAction
    <3>2. limits' = [limits EXCEPT !.schema = Put(@, a.event_type, a.min_len)]
      BY <2>1, <2>3 DEF LimitsAfter
    <3>. HIDE DEF a
    <3>. QED BY <3>1, <3>2, <1>6
  <2>4. CASE a.kind # "SetMetadataSchema" BY <2>1, <2>4, <1>1 DEF LimitsAfter
  <2>. QED BY <2>3, <2>4
<1>. QED BY <1>1, <1>8, <1>9, LogCallIsOne, BatchFrame, NonceFrame, HistoryFrame, AccessFrame,
            OwnerFrame, ProposalFrame, HostFrame DEF Next

(* Replacing an owner leaves a list of owners.                               *)
LEMMA ReplaceFirstTyped ==
    ASSUME NEW S, NEW q \in Seq(S), NEW old, NEW new \in S
    PROVE  ReplaceFirst(q, old, new) \in Seq(S)
<1>1. Len(q) \in Nat /\ DOMAIN q = 1..Len(q) /\ \A i \in 1..Len(q) : q[i] \in S OBVIOUS
<1>2. ReplaceFirst(q, old, new) \in [1..Len(q) -> S] BY <1>1 DEF ReplaceFirst
<1>. QED BY <1>1, <1>2, RuleIsSeq

(* Owners, threshold and roles keep their types.                             *)
LEMMA StepKeepsAuth ==
    ASSUME StoreInv, AuthTyped, [Next]_vars
    PROVE  AuthTyped'
<1>1. CASE auth' = auth BY <1>1 DEF AuthTyped
<1>2. ASSUME NEW owner \in Address, NEW owners \in Seq(Address), NEW required \in Nat,
             NEW roles, PartialMap(roles, Address, Role), NEW rbac \in BOOLEAN,
             auth' = [owner |-> owner, owners |-> owners, required |-> required,
                      roles |-> roles, rbac |-> rbac]
      PROVE  AuthTyped'
  BY <1>2 DEF AuthTyped
<1>f. /\ auth = [owner |-> auth.owner, owners |-> auth.owners, required |-> auth.required,
                 roles |-> auth.roles, rbac |-> auth.rbac]
      /\ auth.owner \in Address /\ auth.owners \in Seq(Address)
      /\ auth.required \in Nat /\ auth.rbac \in BOOLEAN
      /\ PartialMap(auth.roles, Address, Role)
  BY DEF AuthTyped
<1>r. Len(auth.owners) \in Nat BY <1>f
<1>a. "Admin" \in Role BY DEF Role
<1>3. CASE OwnerCalls
  <2>1. ASSUME NEW c \in Address, NEW n \in LogLimit, set_required_signatures(c, n)
        PROVE  AuthTyped'
    <3>1. n \in Nat BY InputsAssumption
    <3>2. auth' = [owner |-> auth.owner, owners |-> auth.owners, required |-> n,
                   roles |-> auth.roles, rbac |-> auth.rbac]
      BY <2>1, <1>f DEF set_required_signatures
    <3>. QED BY <3>1, <3>2, <1>2, <1>f
  <2>2. ASSUME NEW c \in Address, NEW on \in BOOLEAN, enable_rbac(c, on)
        PROVE  AuthTyped'
    <3>1. auth' = [owner |-> auth.owner, owners |-> auth.owners, required |-> auth.required,
                   roles |-> auth.roles, rbac |-> on]
      BY <2>2, <1>f DEF enable_rbac
    <3>. QED BY <3>1, <1>2, <1>f
  <2>3. ASSUME NEW c \in Address, NEW a \in Address, transfer_ownership(c, a)
        PROVE  AuthTyped'
    <3>1. PICK owners, roles : /\ owners = ReplaceFirst(auth.owners, auth.owner, a)
                               /\ roles = RolesAfterTransfer(auth.owner, a)
      OBVIOUS
    <3>2. owners \in Seq(Address) BY <3>1, <1>f, ReplaceFirstTyped
    <3>3. PICK granted : granted = Put(auth.roles, a, "Admin") OBVIOUS
    <3>4. PartialMap(granted, Address, Role) BY <3>3, <1>a, <1>f, PutTyped
    <3>5. roles = auth.roles \/ roles = granted \/ roles = Drop(granted, auth.owner)
      BY <3>1, <3>3 DEF RolesAfterTransfer
    <3>6. PartialMap(roles, Address, Role) BY <3>4, <3>5, <1>f, DropTyped
    <3>7. auth' = [owner |-> a, owners |-> owners, required |-> auth.required,
                   roles |-> roles, rbac |-> auth.rbac]
      BY <2>3, <3>1, <1>f DEF transfer_ownership
    <3>. QED BY <3>2, <3>6, <3>7, <1>2, <1>f
  <2>4. ASSUME NEW c \in Address, NEW a \in Address, add_owner(c, a)
        PROVE  AuthTyped'
    <3>1. PICK owners, roles : /\ owners = Append(auth.owners, a)
                               /\ roles = IF auth.rbac THEN Put(auth.roles, a, "Admin")
                                          ELSE auth.roles
      OBVIOUS
    <3>2. owners \in Seq(Address) BY <3>1, <1>f, AppendProperties
    <3>3. PartialMap(roles, Address, Role) BY <3>1, <1>a, <1>f, PutTyped
    <3>4. auth' = [owner |-> auth.owner, owners |-> owners, required |-> auth.required,
                   roles |-> roles, rbac |-> auth.rbac]
      BY <2>4, <3>1, <1>f DEF add_owner
    <3>. QED BY <3>2, <3>3, <3>4, <1>2, <1>f
  <2>5. ASSUME NEW c \in Address, NEW a \in Address, remove_owner(c, a)
        PROVE  AuthTyped'
    <3>1. PICK owners, required : /\ owners = RemoveAll(auth.owners, a)
                                  /\ required = IF auth.required > Len(owners)
                                                THEN Len(owners) ELSE auth.required
      OBVIOUS
    <3>2. owners \in Seq(Address) /\ Len(owners) \in Nat BY <3>1, <1>f, RemoveAllTyped
    <3>3. required \in Nat BY <3>1, <3>2, <1>f
    <3>4. auth' = [owner |-> auth.owner, owners |-> owners, required |-> required,
                   roles |-> auth.roles, rbac |-> auth.rbac]
      BY <2>5, <3>1, <1>f DEF remove_owner
    <3>. QED BY <3>2, <3>3, <3>4, <1>2, <1>f
  <2>6. ASSUME NEW c \in Address, NEW a \in Address, NEW o \in Option(Role), set_role(c, a, o)
        PROVE  AuthTyped'
    <3>1. PICK roles : roles = IF o = {} THEN Drop(auth.roles, a)
                               ELSE Put(auth.roles, a, CHOOSE x \in o : TRUE)
      OBVIOUS
    <3>2. PartialMap(roles, Address, Role) BY <3>1, <1>f, OptionTyped, DropTyped, PutTyped
    <3>3. auth' = [owner |-> auth.owner, owners |-> auth.owners, required |-> auth.required,
                   roles |-> roles, rbac |-> auth.rbac]
      BY <2>6, <3>1, <1>f DEF set_role
    <3>. QED BY <3>2, <3>3, <1>2, <1>f
  <2>. QED BY <1>3, <2>1, <2>2, <2>3, <2>4, <2>5, <2>6 DEF OwnerCalls
<1>4. ASSUME NEW c \in Address, NEW p \in DOMAIN proposals, NEW h \in Handle,
             execute_proposal(c, p, h)
      PROVE  AuthTyped'
  <2>. DEFINE a == proposals[p].action
  <2>1. proposals[p] \in Proposal BY DEF StoreInv, StoreTypeOK
  <2>2. a \in ProposalAction BY <2>1 DEF Proposal
  <2>3. auth' = AuthAfter(a) BY <1>4 DEF execute_proposal
  <2>4. CASE a.kind = "TransferOwnership"
    <3>1. a.addr \in Address BY <2>2, <2>4 DEF ProposalAction
    <3>2. auth' = [owner |-> a.addr, owners |-> auth.owners, required |-> auth.required,
                   roles |-> auth.roles, rbac |-> auth.rbac]
      BY <2>3, <2>4, <1>f DEF AuthAfter
    <3>. HIDE DEF a
    <3>. QED BY <3>1, <3>2, <1>2, <1>f
  <2>5. CASE a.kind = "AddOwner"
    <3>1. a.addr \in Address BY <2>2, <2>5 DEF ProposalAction
    <3>2. PICK owners : owners = Append(auth.owners, a.addr) OBVIOUS
    <3>3. owners \in Seq(Address) BY <3>1, <3>2, <1>f, AppendProperties
    <3>4. \/ auth' = auth
          \/ auth' = [owner |-> auth.owner, owners |-> owners, required |-> auth.required,
                      roles |-> auth.roles, rbac |-> auth.rbac]
      BY <2>3, <2>5, <3>2, <1>f DEF AuthAfter
    <3>. HIDE DEF a
    <3>. QED BY <3>3, <3>4, <1>1, <1>2, <1>f
  <2>6. CASE a.kind = "RemoveOwner"
    <3>1. PICK owners : owners = RemoveAll(auth.owners, a.addr) OBVIOUS
    <3>2. owners \in Seq(Address) BY <3>1, <1>f, RemoveAllTyped
    <3>3. auth' = [owner |-> auth.owner, owners |-> owners, required |-> auth.required,
                   roles |-> auth.roles, rbac |-> auth.rbac]
      BY <2>3, <2>6, <3>1, <1>f DEF AuthAfter
    <3>. HIDE DEF a
    <3>. QED BY <3>2, <3>3, <1>2, <1>f
  <2>7. CASE a.kind = "SetRequiredSignatures"
    <3>1. a.value \in Nat BY <2>2, <2>7 DEF ProposalAction
    <3>2. auth' = [owner |-> auth.owner, owners |-> auth.owners, required |-> a.value,
                   roles |-> auth.roles, rbac |-> auth.rbac]
      BY <2>3, <2>7, <1>f DEF AuthAfter
    <3>. HIDE DEF a
    <3>. QED BY <3>1, <3>2, <1>2, <1>f
  <2>8. CASE a.kind \notin {"TransferOwnership", "AddOwner", "RemoveOwner",
                            "SetRequiredSignatures"}
    BY <2>3, <2>8, <1>1 DEF AuthAfter
  <2>. QED BY <2>4, <2>5, <2>6, <2>7, <2>8
<1>. QED BY <1>1, <1>3, <1>4, LogCallIsOne, BatchFrame, NonceFrame, HistoryFrame, AccessFrame,
            LimitFrame, ProposalFrame, HostFrame DEF Next

-----------------------------------------------------------------------------
(* All types.                                                                *)

SettingsTyped == RatesTyped /\ SigsTyped /\ AccessTyped /\ LimitsTyped /\ AuthTyped

(* What initialize leaves is typed.                                          *)
LEMMA InitSettings ==
    ASSUME Init
    PROVE  SettingsTyped
<1>1. PICK owners \in OwnerLists :
        /\ rateState = [s \in Address |-> [ts |-> 0, count |-> 0]]
        /\ guard = FALSE /\ sigs = {}
        /\ access = [paused |-> FALSE, blocked |-> {}, allowMode |-> FALSE,
                     allowed |-> {}, lowCost |-> FALSE]
        /\ limits = [cap |-> EmptyMap, size |-> InitialMaxSize, sizeFor |-> EmptyMap,
                     schema |-> EmptyMap, rate |-> EmptyMap]
        /\ auth = [owner |-> owners[1], owners |-> owners, required |-> 1,
                   roles |-> [a \in {owners[i] : i \in DOMAIN owners} |-> "Admin"],
                   rbac |-> FALSE]
  BY DEF Init
<1>2. owners \in Seq(Address) /\ owners # <<>> BY DeployAssumption
<1>3. owners[1] \in Address /\ \A i \in DOMAIN owners : owners[i] \in Address BY <1>2
<1>4. RatesTyped BY <1>1 DEF RatesTyped
<1>5. SigsTyped BY <1>1 DEF SigsTyped
<1>6. AccessTyped BY <1>1 DEF AccessTyped
<1>7. LimitsTyped BY <1>1, DeployAssumption DEF LimitsTyped, EmptyMap, PartialMap
<1>8. AuthTyped BY <1>1, <1>2, <1>3 DEF AuthTyped, PartialMap, Role
<1>. QED BY <1>4, <1>5, <1>6, <1>7, <1>8 DEF SettingsTyped

(* Every setting keeps the type the contract reads it back with.             *)
THEOREM SettingsStayTyped == Spec => []SettingsTyped
<1>1. Init => SettingsTyped BY InitSettings
<1>2. StoreInv /\ SettingsTyped /\ [Next]_vars => SettingsTyped'
  BY StepKeepsRates, StepKeepsSigs, StepKeepsAccess, StepKeepsLimits, StepKeepsAuth
  DEF SettingsTyped
<1>. QED BY <1>1, <1>2, StoreInvariant, PTL DEF Spec

(* Whatever is called, every storage entry of lib.rs has the type its        *)
(* readers expect, so no unwrap of a stored value meets another one.         *)
THEOREM LedgerTyped == Spec => []TypeOK
<1>1. StoreInv /\ IndexInv /\ DedupInv /\ NoncesTyped /\ SettingsTyped => TypeOK
  <2>. SUFFICES ASSUME StoreInv, IndexInv, DedupInv, NoncesTyped, SettingsTyped
                PROVE  TypeOK
    OBVIOUS
  <2>1. StoreTypeOK BY DEF StoreInv
  <2>2. /\ index.types \in [EventType -> SUBSET Nat]
        /\ index.counts \in [EventType -> Nat]
        /\ index.submitters \in [Address -> SUBSET Nat]
    BY DEF IndexInv, IndexTyped
  <2>3. /\ dedup.policy \in DedupPolicy
        /\ PartialMap(dedup.policyFor, EventType, DedupPolicy)
        /\ PartialMap(dedup.content, (EventType \cup Handle) \X Address \X Metadata, Nat)
        /\ PartialMap(dedup.contentTs, (EventType \cup Handle) \X Address \X Metadata,
                      [index : Nat, ts : Nat])
        /\ PartialMap(dedup.custom, CustomKey, Nat)
    BY DEF DedupInv, DedupTyped, ContentHash
  <2>4. /\ PartialMap(nonces.state, Address, NonceState)
        /\ PartialMap(nonces.config, Address, NonceState)
    BY DEF NoncesTyped
  <2>. QED BY <2>1, <2>2, <2>3, <2>4 DEF TypeOK, ConfigTypeOK, SettingsTyped, RatesTyped,
                 SigsTyped, AccessTyped, LimitsTyped, AuthTyped
<1>. QED BY <1>1, StoreInvariant, IndexInvariant, DedupInvariant, NoncesStayTyped,
            SettingsStayTyped, PTL

-----------------------------------------------------------------------------
(* Proposals.                                                                *)

(* No owner is counted twice among the approvals of a proposal.              *)
ApprovalsDistinct ==
    \A p \in DOMAIN proposals :
        \A i, j \in DOMAIN proposals[p].approvals :
            proposals[p].approvals[i] = proposals[p].approvals[j] => i = j

(* The three ways in which a step touches a proposal.                        *)
Submission ==
    \E c, r : /\ r.approvals = <<c>> /\ ~r.executed
              /\ proposals' = Append(proposals, r)
Approval ==
    \E p \in DOMAIN proposals, c \in Address :
        /\ Open(p) /\ ~HasApproved(p, c)
        /\ proposals' = [proposals EXCEPT ![p].approvals = Append(@, c)]
Execution ==
    \E p \in DOMAIN proposals :
        /\ Open(p) /\ Approved(p)
        /\ proposals' = [proposals EXCEPT ![p].executed = TRUE]

(* No other entry point writes proposals.                                    *)
LEMMA ProposalsMove ==
    ASSUME [Next]_vars
    PROVE  proposals' = proposals \/ Submission \/ Approval \/ Execution
<1>1. CASE ProposalCalls
  <2>1. PICK c \in Address :
          \/ \E a \in ProposalActions, ttl \in Ttl : submit_proposal(c, a, ttl)
          \/ \E p \in DOMAIN proposals : approve_proposal(c, p)
          \/ \E p \in DOMAIN proposals, h \in Handle : execute_proposal(c, p, h)
    BY <1>1 DEF ProposalCalls
  <2>2. CASE \E a \in ProposalActions, ttl \in Ttl : submit_proposal(c, a, ttl)
    <3>1. PICK a, ttl : submit_proposal(c, a, ttl) BY <2>2
    <3>. DEFINE r == [proposer |-> c, action |-> a, approvals |-> <<c>>,
                      expires_at |-> now + ttl, executed |-> FALSE]
    <3>2. proposals' = Append(proposals, r) BY <3>1 DEF submit_proposal
    <3>3. r.approvals = <<c>> /\ ~r.executed OBVIOUS
    <3>. HIDE DEF r
    <3>. QED BY <3>2, <3>3 DEF Submission
  <2>3. CASE \E p \in DOMAIN proposals : approve_proposal(c, p)
    BY <2>3 DEF approve_proposal, Approval
  <2>4. CASE \E p \in DOMAIN proposals, h \in Handle : execute_proposal(c, p, h)
    BY <2>4 DEF execute_proposal, Execution
  <2>. QED BY <2>1, <2>2, <2>3, <2>4
<1>2. CASE LogCalls BY <1>2, LogCallIsOne
<1>3. CASE BatchCalls BY <1>3, BatchFrame
<1>4. CASE NonceCalls BY <1>4, NonceFrame
<1>5. CASE HistoryCalls BY <1>5, HistoryFrame
<1>6. CASE AccessCalls BY <1>6, AccessFrame
<1>7. CASE LimitCalls BY <1>7, LimitFrame
<1>8. CASE OwnerCalls BY <1>8, OwnerFrame
<1>9. CASE Tick \/ EvictTemporary \/ UNCHANGED vars BY <1>9, HostFrame
<1>. QED BY <1>1, <1>2, <1>3, <1>4, <1>5, <1>6, <1>7, <1>8, <1>9 DEF Next

(* One more approval, by someone who had not approved yet.                   *)
LEMMA AppendDistinct ==
    ASSUME NEW S, NEW q \in Seq(S), NEW c \in S,
           \A i, j \in DOMAIN q : q[i] = q[j] => i = j,
           ~\E i \in DOMAIN q : q[i] = c
    PROVE  \A i, j \in DOMAIN Append(q, c) : Append(q, c)[i] = Append(q, c)[j] => i = j
<1>1. Len(q) \in Nat /\ DOMAIN q = 1..Len(q) /\ DOMAIN Append(q, c) = 1..(Len(q) + 1)
  OBVIOUS
<1>2. \A i \in 1..(Len(q) + 1) : Append(q, c)[i] = IF i = Len(q) + 1 THEN c ELSE q[i]
  OBVIOUS
<1>. QED BY <1>1, <1>2

(* Each of the three ways keeps the approvers different.                     *)
LEMMA StepKeepsApprovals ==
    ASSUME StoreInv, ApprovalsDistinct, [Next]_vars
    PROVE  ApprovalsDistinct'
<1>0. proposals \in Seq(Proposal) BY DEF StoreInv, StoreTypeOK
<1>1. CASE proposals' = proposals BY <1>1 DEF ApprovalsDistinct
<1>2. CASE Submission
  <2>1. PICK c, r : r.approvals = <<c>> /\ proposals' = Append(proposals, r)
    BY <1>2 DEF Submission
  <2>2. DOMAIN proposals' = 1..(Len(proposals) + 1) BY <2>1, <1>0
  <2>3. \A p \in 1..(Len(proposals) + 1) :
          proposals'[p] = IF p = Len(proposals) + 1 THEN r ELSE proposals[p]
    BY <2>1, <1>0
  <2>. SUFFICES ASSUME NEW p \in DOMAIN proposals',
                       NEW i \in DOMAIN proposals'[p].approvals,
                       NEW j \in DOMAIN proposals'[p].approvals,
                       proposals'[p].approvals[i] = proposals'[p].approvals[j]
                PROVE  i = j
    BY DEF ApprovalsDistinct
  <2>4. CASE p = Len(proposals) + 1
    <3>1. DOMAIN <<c>> = 1..1 OBVIOUS
    <3>. QED BY <2>1, <2>2, <2>3, <2>4, <3>1
  <2>5. CASE p # Len(proposals) + 1
    BY <2>2, <2>3, <2>5, <1>0 DEF ApprovalsDistinct
  <2>. QED BY <2>4, <2>5
<1>3. CASE Approval
  <2>1. PICK p \in DOMAIN proposals, c \in Address :
          /\ ~HasApproved(p, c)
          /\ proposals' = [proposals EXCEPT ![p].approvals = Append(@, c)]
    BY <1>3 DEF Approval
  <2>2. proposals[p] \in Proposal /\ proposals[p].approvals \in Seq(Address)
    <3>1. proposals[p] \in Proposal BY <1>0
    <3>. QED BY <3>1 DEF Proposal
  <2>3. DOMAIN proposals' = DOMAIN proposals
    BY <2>1
  <2>4. proposals'[p].approvals = Append(proposals[p].approvals, c)
    BY <2>1, <2>2 DEF Proposal
  <2>5. \A k \in DOMAIN proposals : k # p => proposals'[k] = proposals[k]
    BY <2>1
  <2>6. \A i, j \in DOMAIN proposals'[p].approvals :
           proposals'[p].approvals[i] = proposals'[p].approvals[j] => i = j
    <3>. DEFINE q == proposals[p].approvals
    <3>1. \A i, j \in DOMAIN q : q[i] = q[j] => i = j BY DEF ApprovalsDistinct
    <3>2. ~\E i \in DOMAIN q : q[i] = c BY <2>1 DEF HasApproved
    <3>3. q \in Seq(Address) BY <2>2
    <3>. HIDE DEF q
    <3>4. \A i, j \in DOMAIN Append(q, c) : Append(q, c)[i] = Append(q, c)[j] => i = j
      BY <3>1, <3>2, <3>3, AppendDistinct
    <3>. QED BY <3>4, <2>4 DEF q
  <2>. QED BY <2>3, <2>5, <2>6 DEF ApprovalsDistinct
<1>4. CASE Execution
  <2>1. PICK p \in DOMAIN proposals : proposals' = [proposals EXCEPT ![p].executed = TRUE]
    BY <1>4 DEF Execution
  <2>2. proposals[p] \in Proposal BY <1>0
  <2>3. DOMAIN proposals' = DOMAIN proposals BY <2>1
  <2>4. proposals'[p].approvals = proposals[p].approvals BY <2>1, <2>2 DEF Proposal
  <2>5. \A k \in DOMAIN proposals : k # p => proposals'[k] = proposals[k] BY <2>1
  <2>. QED BY <2>3, <2>4, <2>5 DEF ApprovalsDistinct
<1>. QED BY <1>1, <1>2, <1>3, <1>4, ProposalsMove

(* Because nobody is counted twice, the length of the list, which is all     *)
(* that execute_proposal looks at, is the number of approvers.               *)
LEMMA ApproversCounted ==
    ASSUME StoreInv, ApprovalsDistinct, NEW p \in DOMAIN proposals
    PROVE  Cardinality(Approvers(p)) = Len(proposals[p].approvals)
<1>. DEFINE q == proposals[p].approvals
            f == [i \in 1..Len(q) |-> q[i]]
<1>1. q \in Seq(Address)
  <2>1. proposals[p] \in Proposal BY DEF StoreInv, StoreTypeOK
  <2>. QED BY <2>1 DEF Proposal
<1>2. Len(q) \in Nat /\ DOMAIN q = 1..Len(q) BY <1>1
<1>3. \A i, j \in DOMAIN q : q[i] = q[j] => i = j BY DEF ApprovalsDistinct
<1>4. Approvers(p) = {q[i] : i \in 1..Len(q)} BY <1>2 DEF Approvers
<1>. HIDE DEF q
<1>5. f \in [1..Len(q) -> Approvers(p)] BY <1>4
<1>6. \A t \in Approvers(p) : \E i \in 1..Len(q) : f[i] = t BY <1>4
<1>7. \A i, j \in DOMAIN f : f[i] = f[j] => i = j BY <1>2, <1>3
<1>8. ExistsBijection(1..Len(q), Approvers(p))
  BY <1>5, <1>6, <1>7 DEF ExistsBijection, Bijection, Injection, Surjection, IsInjective
<1>9. IsFiniteSet(1..Len(q)) /\ Cardinality(1..Len(q)) = Len(q) BY <1>2, FS_Interval
<1>. QED BY <1>8, <1>9, FS_Bijection DEF q

(* The approvals of every proposal come from different accounts.             *)
THEOREM ApprovalsStayDistinct == Spec => []ApprovalsDistinct
<1>1. Init => ApprovalsDistinct BY DEF Init, ApprovalsDistinct
<1>2. StoreInv /\ ApprovalsDistinct /\ [Next]_vars => ApprovalsDistinct'
  BY StepKeepsApprovals
<1>. QED BY <1>1, <1>2, StoreInvariant, PTL DEF Spec

(* execute_proposal runs a proposal at most once, before it expires, and     *)
(* only with as many different approvers as the threshold then asks for.     *)
THEOREM ExecutionsHaveQuorum == Spec => ExecutionNeedsQuorum
<1>. DEFINE Fair == \A p \in DOMAIN proposals :
               /\ p \in DOMAIN proposals'
               /\ proposals[p].executed => proposals'[p] = proposals[p]
               /\ ~proposals[p].executed /\ proposals'[p].executed =>
                     /\ Cardinality(Approvers(p)) >= auth.required
                     /\ now <= proposals[p].expires_at
<1>1. StoreInv /\ ApprovalsDistinct /\ [Next]_vars => [Fair]_vars
  <2>. SUFFICES ASSUME StoreInv, ApprovalsDistinct, [Next]_vars, NEW p \in DOMAIN proposals
                PROVE  /\ p \in DOMAIN proposals'
                       /\ proposals[p].executed => proposals'[p] = proposals[p]
                       /\ ~proposals[p].executed /\ proposals'[p].executed =>
                             /\ Cardinality(Approvers(p)) >= auth.required
                             /\ now <= proposals[p].expires_at
    OBVIOUS
  <2>0. proposals \in Seq(Proposal) BY DEF StoreInv, StoreTypeOK
  <2>1. CASE proposals' = proposals BY <2>1
  <2>2. CASE Submission BY <2>0, <2>2 DEF Submission
  <2>3. CASE Approval
    <3>1. PICK k \in DOMAIN proposals, c \in Address :
            Open(k) /\ proposals' = [proposals EXCEPT ![k].approvals = Append(@, c)]
      BY <2>3 DEF Approval
    <3>2. proposals[k] \in Proposal BY <2>0
    <3>3. proposals'[k].executed = proposals[k].executed BY <3>1, <3>2 DEF Proposal
    <3>. QED BY <3>1, <3>3 DEF Open
  <2>4. CASE Execution
    <3>1. PICK k \in DOMAIN proposals :
            Open(k) /\ Approved(k) /\ proposals' = [proposals EXCEPT ![k].executed = TRUE]
      BY <2>4 DEF Execution
    <3>2. Cardinality(Approvers(k)) >= auth.required
      BY <3>1, ApproversCounted DEF Approved
    <3>. QED BY <3>1, <3>2 DEF Open
  <2>. QED BY <2>1, <2>2, <2>3, <2>4, ProposalsMove
<1>. QED BY <1>1, StoreInvariant, ApprovalsStayDistinct, PTL DEF Spec, ExecutionNeedsQuorum

-----------------------------------------------------------------------------
(* Admission.                                                                *)

(* The log grows only through the logging entry points.                      *)
LEMMA OnlyLoggingGrows ==
    ASSUME StoreInv, [Next]_vars, ~LogCalls, ~BatchCalls
    PROVE  DOMAIN order' = DOMAIN order
<1>1. StoreInv' BY NextIsStep, StepKeepsStore
<1>2. CASE rs' = rs BY <1>1, <1>2 DEF StoreInv, StoreConsistent
<1>3. CASE order' = order BY <1>3
<1>4. rs' = rs \/ order' = order
  BY NonceFrame, HistoryFrame, AccessFrame, LimitFrame, OwnerFrame, ProposalFrame, HostFrame
  DEF Next
<1>. QED BY <1>2, <1>3, <1>4

(* What the stored path of log_event requires of the event it stores.        *)
LEMMA StoredWasAdmitted ==
    ASSUME StoreInv, SettingsTyped, NEW s \in Address, NEW t \in EventType,
           NEW m \in Metadata, MayLog(s, t, m), rateState' = RateCharged(s)
    PROVE  /\ ~access.paused
           /\ s \notin access.blocked
           /\ access.allowMode => s \in access.allowed
           /\ auth.rbac => RoleOf(s) # "Viewer"
           /\ s \in DOMAIN limits.rate => rateState'[s].count \in 1..limits.rate[s]
           /\ MetadataAllowed(t, m)
<1>1. auth.rbac => RoleOf(s) # "Viewer"
  <2>1. Rank["Viewer"] = 1 /\ Rank["Submitter"] = 2 BY DEF Rank
  <2>2. auth.rbac => Rank[RoleOf(s)] >= Rank["Submitter"] BY DEF MayLog, require_role_min
  <2>. QED BY <2>1, <2>2
<1>2. ASSUME s \in DOMAIN limits.rate PROVE rateState'[s].count \in 1..limits.rate[s]
  <2>1. rateState \in [Address -> [ts : Nat, count : Nat]] /\ limits.rate[s] \in Nat
    BY <1>2 DEF SettingsTyped, RatesTyped, LimitsTyped, PartialMap
  <2>2. RateUsed(s) \in Nat BY <2>1 DEF RateUsed
  <2>3. RateUsed(s) < limits.rate[s] BY <1>2 DEF MayLog, RateLimited
  <2>4. rateState' = [rateState EXCEPT ![s] = [ts |-> now, count |-> RateUsed(s) + 1]]
    BY <1>2 DEF RateCharged, RateLimited
  <2>5. rateState'[s].count = RateUsed(s) + 1 BY <2>1, <2>4
  <2>. QED BY <2>1, <2>2, <2>3, <2>5
<1>. QED BY <1>1, <1>2 DEF MayLog

(* Whatever single-event call stores an event (log_events, which does not    *)
(* look at the blocklist, the allowlist or the paused flag that pause sets,  *)
(* is not called), its submitter and its metadata passed every check.        *)
THEOREM SinglesAreAdmitted ==
    ASSUME "log_events" \notin Calls
    PROVE  Spec => AdmissionEnforced
<1>. DEFINE Admitted == \A i \in DOMAIN order' \ DOMAIN order :
        LET e == EventAt(i)'
        IN  /\ ~access.paused
            /\ e.submitter \notin access.blocked
            /\ access.allowMode => e.submitter \in access.allowed
            /\ auth.rbac => RoleOf(e.submitter) # "Viewer"
            /\ e.submitter \in DOMAIN limits.rate =>
                  rateState'[e.submitter].count \in 1..limits.rate[e.submitter]
            /\ MetadataAllowed(e.event_type, e.metadata)
<1>1. StoreInv /\ SettingsTyped /\ [Next]_vars => [Admitted]_vars
  <2>. SUFFICES ASSUME StoreInv, SettingsTyped, [Next]_vars PROVE Admitted
    OBVIOUS
  <2>1. ~BatchCalls BY DEF BatchCalls, Called
  <2>2. CASE ~LogCalls BY <2>1, <2>2, OnlyLoggingGrows
  <2>3. CASE LogCalls
    <3>1. PICK s \in Address, t \in EventType, m \in Metadata, cat \in Category,
               force \in BOOLEAN, h \in Handle, key \in Option(CustomKey) :
               log_event_with_hierarchy(s, t, m, cat, force, h, key)
      BY <2>3, LogCallIsOne
    <3>2. MayLog(s, t, m) /\ rateState' = RateCharged(s) BY <3>1 DEF log_event_with_hierarchy
    <3>3. ReturnExisting \/ StoreEvent(s, t, m, cat, h, key)
      BY <3>1 DEF log_event_with_hierarchy
    <3>4. CASE ReturnExisting BY <3>4 DEF ReturnExisting
    <3>5. CASE StoreEvent(s, t, m, cat, h, key)
      <4>1. PICK n \in Nat :
              /\ DOMAIN order' = DOMAIN order \cup {n}
              /\ EventAt(n)' = NewEvent(s, t, m, cat, n, NextId(s, t, m, h), PrevHash(n))
        BY <3>5, StoredAt
      <4>2. /\ EventAt(n)'.submitter = s /\ EventAt(n)'.event_type = t
            /\ EventAt(n)'.metadata = m
        BY <4>1 DEF NewEvent
      <4>. SUFFICES ASSUME NEW i \in DOMAIN order' \ DOMAIN order
                    PROVE  LET e == EventAt(i)'
                           IN  /\ ~access.paused
                               /\ e.submitter \notin access.blocked
                               /\ access.allowMode => e.submitter \in access.allowed
                               /\ auth.rbac => RoleOf(e.submitter) # "Viewer"
                               /\ e.submitter \in DOMAIN limits.rate =>
                                    rateState'[e.submitter].count
                                       \in 1..limits.rate[e.submitter]
                               /\ MetadataAllowed(e.event_type, e.metadata)
        OBVIOUS
      <4>3. i = n BY <4>1
      <4>4. /\ EventAt(i)'.submitter = s /\ EventAt(i)'.event_type = t
            /\ EventAt(i)'.metadata = m
        BY <4>2, <4>3
      <4>. QED BY <4>4, <3>2, StoredWasAdmitted
    <3>. QED BY <3>3, <3>4, <3>5
  <2>. QED BY <2>2, <2>3
<1>. QED BY <1>1, StoreInvariant, SettingsStayTyped, PTL DEF Spec, AdmissionEnforced

-----------------------------------------------------------------------------
(* Caps.                                                                     *)

(* A non-empty set of numbers up to n has a greatest member.                 *)
LEMMA GreatestNumber ==
    ASSUME NEW n \in Nat, NEW S \in SUBSET (1..n), S # {}
    PROVE  \E g \in S : \A k \in S : k <= g
<1>. DEFINE T == {d \in 0..n : n - d \in S}
<1>1. T \in SUBSET Nat OBVIOUS
<1>2. T # {}
  <2>1. PICK k \in S : TRUE OBVIOUS
  <2>2. n - k \in 0..n /\ n - (n - k) = k OBVIOUS
  <2>. QED BY <2>1, <2>2
<1>3. PICK d \in T : \A e \in T : d <= e
  <2>. HIDE DEF T
  <2>. QED BY <1>1, <1>2, LeastNumber
<1>4. \A k \in S : n - k \in T /\ k \in Int
  <2>. TAKE k \in S
  <2>1. n - k \in 0..n /\ n - (n - k) = k /\ k \in Int OBVIOUS
  <2>. QED BY <2>1
<1>. QED BY <1>3, <1>4

(* A step that logs nothing of a type leaves its events where they are.      *)
LEMMA SameEventsOfType ==
    ASSUME StoreInv, [Next]_vars, DOMAIN order' = DOMAIN order, NEW t
    PROVE  EventsOfType(t)' = EventsOfType(t)
<1>1. \A i \in DOMAIN order : EventAt(i)'.event_type = EventAt(i).event_type
  BY NextIsStep, EventsStay
<1>. QED BY <1>1 DEF EventsOfType

(* log_event: one event more, where MayLog found room for one.               *)
LEMMA StoreWithinCap ==
    ASSUME StoreInv, IndexInv, LimitsTyped, [Next]_vars,
           NEW s \in Address, NEW t \in EventType, NEW m \in Metadata,
           NEW cat \in Category, NEW h \in Handle, NEW key,
           MayLog(s, t, m), StoreEvent(s, t, m, cat, h, key),
           NEW u \in DOMAIN limits.cap,
           index.types[u] = EventsOfType(u), EventsOfType(u)' # EventsOfType(u)
    PROVE  Cardinality(EventsOfType(u)') <= limits.cap[u]
<1>1. u \in EventType /\ limits.cap[u] \in Nat BY DEF LimitsTyped, PartialMap
<1>2. PICK n \in Nat :
        /\ n \notin DOMAIN order
        /\ DOMAIN order' = DOMAIN order \cup {n}
        /\ EventAt(n)' = NewEvent(s, t, m, cat, n, NextId(s, t, m, h), PrevHash(n))
  BY StoredAt
<1>3. EventAt(n)'.event_type = t BY <1>2 DEF NewEvent
<1>4. \A i \in DOMAIN order : EventAt(i)'.event_type = EventAt(i).event_type
  BY NextIsStep, EventsStay
<1>5. u = t BY <1>2, <1>3, <1>4 DEF EventsOfType
<1>6. EventsOfType(u)' = index.types[u] \cup {n} BY <1>2, <1>3, <1>4, <1>5 DEF EventsOfType
<1>7. IsFiniteSet(index.types[u]) /\ Cardinality(index.types[u]) \in Nat
  BY <1>1, IndexFinite
<1>8. Cardinality(index.types[u] \cup {n}) <= Cardinality(index.types[u]) + 1
  <2>1. Cardinality(index.types[u] \cup {n})
          = IF n \in index.types[u] THEN Cardinality(index.types[u])
            ELSE Cardinality(index.types[u]) + 1
    BY <1>7, FS_AddElement
  <2>. QED BY <2>1, <1>7
<1>9. Cardinality(index.types[u]) < limits.cap[u] BY <1>5 DEF MayLog, event_type_count
<1>10. Cardinality(index.types[u] \cup {n}) \in Nat
  BY <1>7, FS_AddElement, FS_CardinalityType
<1>. QED BY <1>1, <1>6, <1>7, <1>8, <1>9, <1>10

(* log_events: the check of the last event of a type counts all of them.     *)
LEMMA BatchWithinCap ==
    ASSUME StoreInv, IndexInv, LimitsTyped, [Next]_vars,
           NEW items \in Seq(Item), log_events(items),
           NEW u \in DOMAIN limits.cap,
           index.types[u] = EventsOfType(u), EventsOfType(u)' # EventsOfType(u)
    PROVE  Cardinality(EventsOfType(u)') <= limits.cap[u]
<1>. DEFINE K == {k \in 1..Len(items) : items[k].event_type = u}
            P == PositionsOfType(items, u)
<1>1. u \in EventType /\ limits.cap[u] \in Nat BY DEF LimitsTyped, PartialMap
<1>2. /\ rs.total \in Nat /\ Len(items) \in Nat
      /\ DOMAIN order' = DOMAIN order \cup {BatchIndex(k) : k \in 1..Len(items)}
      /\ \A k \in 1..Len(items) :
           /\ BatchIndex(k) \notin DOMAIN order
           /\ BatchIndex(k) - rs.total + 1 = k
           /\ \A i : i = BatchIndex(k) => EventAt(i)' = BatchEvent(items, k)
  BY BatchStoredAt
<1>3. \A k \in 1..Len(items) : \A i : i = BatchIndex(k) =>
          i \in DOMAIN order' /\ EventAt(i)'.event_type = items[k].event_type
  BY <1>2 DEF BatchEvent
<1>4. \A i \in DOMAIN order : EventAt(i)'.event_type = EventAt(i).event_type
  BY NextIsStep, EventsStay
<1>5. P = {BatchIndex(k) : k \in K} BY DEF PositionsOfType
<1>6. EventsOfType(u)' = index.types[u] \cup P
  <2>1. index.types[u] \cup P \subseteq EventsOfType(u)'
    BY <1>2, <1>3, <1>4, <1>5 DEF EventsOfType
  <2>2. ASSUME NEW i \in EventsOfType(u)' PROVE i \in index.types[u] \cup P
    <3>1. CASE i \in DOMAIN order BY <3>1, <1>4, <2>2 DEF EventsOfType
    <3>2. CASE i \notin DOMAIN order
      <4>1. i \in DOMAIN order' /\ EventAt(i)'.event_type = u BY <2>2 DEF EventsOfType
      <4>2. PICK k \in 1..Len(items) : i = BatchIndex(k) BY <3>2, <4>1, <1>2
      <4>3. items[k].event_type = u BY <4>1, <4>2, <1>3
      <4>. QED BY <4>2, <4>3, <1>5
    <3>. QED BY <3>1, <3>2
  <2>. QED BY <2>1, <2>2
<1>7. K # {} BY <1>5, <1>6
<1>8. PICK g \in K : \A k \in K : k <= g
  <2>1. K \in SUBSET (1..Len(items)) OBVIOUS
  <2>. HIDE DEF K
  <2>. QED BY <2>1, <1>2, <1>7, GreatestNumber
<1>9. SameType(items, g) = K BY <1>2, <1>8 DEF SameType
<1>10. event_type_count(u) + Cardinality(K) <= limits.cap[u]
  <2>1. BatchItemAllowed(items, g) BY <1>8 DEF log_events, MayLogBatch
  <2>. QED BY <2>1, <1>8, <1>9 DEF BatchItemAllowed
<1>11. IsFiniteSet(K) /\ Cardinality(K) \in Nat
  <2>1. IsFiniteSet(1..Len(items)) BY <1>2, FS_Interval
  <2>2. IsFiniteSet(K) BY <2>1, FS_Subset
  <2>. QED BY <2>2, FS_CardinalityType
<1>12. IsFiniteSet(P) /\ Cardinality(P) = Cardinality(K)
  <2>. DEFINE f == [k \in K |-> BatchIndex(k)]
  <2>1. f \in [K -> P] BY <1>5
  <2>2. \A i \in P : \E k \in K : f[k] = i BY <1>5
  <2>3. \A j, k \in DOMAIN f : f[j] = f[k] => j = k BY <1>2
  <2>. HIDE DEF K, P
  <2>4. ExistsBijection(K, P)
    BY <2>1, <2>2, <2>3 DEF ExistsBijection, Bijection, Injection, Surjection, IsInjective
  <2>. QED BY <2>4, <1>11, FS_Bijection
<1>13. IsFiniteSet(index.types[u]) /\ Cardinality(index.types[u]) \in Nat
  BY <1>1, IndexFinite
<1>14. Cardinality(index.types[u] \cup P) <= Cardinality(index.types[u]) + Cardinality(P)
  <2>. HIDE DEF P
  <2>1. IsFiniteSet(index.types[u] \cap P) BY <1>13, FS_Subset
  <2>2. Cardinality(index.types[u] \cap P) \in Nat BY <2>1, FS_CardinalityType
  <2>3. Cardinality(index.types[u] \cup P)
          = Cardinality(index.types[u]) + Cardinality(P) - Cardinality(index.types[u] \cap P)
    BY <1>12, <1>13, FS_Union
  <2>. QED BY <2>2, <2>3, <1>11, <1>12, <1>13
<1>15. Cardinality(index.types[u] \cup P) \in Nat
  BY <1>12, <1>13, FS_Union, FS_CardinalityType
<1>. HIDE DEF P, K
<1>. QED BY <1>1, <1>6, <1>10, <1>11, <1>12, <1>13, <1>14, <1>15 DEF event_type_count

(* As long as the index of a type is complete (compact_storage empties it,   *)
(* low-cost mode does not maintain it), neither log_event nor a batch logs   *)
(* past the cap of the type.                                                 *)
THEOREM CapsHold == Spec => CapRespected
<1>. DEFINE Capped == \A t \in DOMAIN limits.cap :
        /\ index.types[t] = EventsOfType(t)
        /\ EventsOfType(t)' # EventsOfType(t)
        => Cardinality(EventsOfType(t)') <= limits.cap[t]
<1>1. StoreInv /\ IndexInv /\ SettingsTyped /\ [Next]_vars => [Capped]_vars
  <2>. SUFFICES ASSUME StoreInv, IndexInv, SettingsTyped, [Next]_vars,
                       NEW u \in DOMAIN limits.cap,
                       index.types[u] = EventsOfType(u),
                       EventsOfType(u)' # EventsOfType(u)
                PROVE  Cardinality(EventsOfType(u)') <= limits.cap[u]
    OBVIOUS
  <2>0. LimitsTyped BY DEF SettingsTyped
  <2>1. CASE LogCalls
    <3>1. PICK s \in Address, t \in EventType, m \in Metadata, cat \in Category,
               force \in BOOLEAN, h \in Handle, key \in Option(CustomKey) :
               log_event_with_hierarchy(s, t, m, cat, force, h, key)
      BY <2>1, LogCallIsOne
    <3>2. MayLog(s, t, m) BY <3>1 DEF log_event_with_hierarchy
    <3>3. ReturnExisting \/ StoreEvent(s, t, m, cat, h, key)
      BY <3>1 DEF log_event_with_hierarchy
    <3>4. CASE ReturnExisting BY <3>4, SameEventsOfType DEF ReturnExisting
    <3>5. CASE StoreEvent(s, t, m, cat, h, key) BY <2>0, <3>2, <3>5, StoreWithinCap
    <3>. QED BY <3>3, <3>4, <3>5
  <2>2. CASE BatchCalls BY <2>0, <2>2, BatchFrame, BatchWithinCap
  <2>3. CASE ~LogCalls /\ ~BatchCalls BY <2>3, OnlyLoggingGrows, SameEventsOfType
  <2>. QED BY <2>1, <2>2, <2>3
<1>. QED BY <1>1, StoreInvariant, IndexInvariant, SettingsStayTyped, PTL DEF Spec, CapRespected

-----------------------------------------------------------------------------
(* One copy of every content.                                                *)

(* Callers of these may store content that is already in the log: they may   *)
(* force it, log_events does not look for it, update_event writes it over    *)
(* other content, and the policies decide what is looked for.                *)
Duplicating ==
    {"log_event", "log_event_with_custom_key", "log_events", "update_event",
     "set_dedup_policy", "set_dedup_policy_for_type"}

(* Every stored event is the one its content leads to. It needs a history    *)
(* without amendments, and the default policy.                               *)
ContentRecorded ==
    /\ dedup.policy = "ContentHash" /\ DOMAIN dedup.policyFor = {}
    /\ DOMAIN versions = {}
    /\ \A i \in DOMAIN order : /\ Content(EventAt(i)) \in DOMAIN dedup.content
                               /\ dedup.content[Content(EventAt(i))] = i

(* The event types of short names stand for themselves in a hash.            *)
LEMMA ShortContent ==
    ASSUME LongType = {}, NEW t, NEW s, NEW m, NEW h
    PROVE  compute_content_hash(t, s, m, h) = <<t, s, m>>
BY DEF compute_content_hash, SymbolPayload

(* A step that leaves the log, its history and the recorded content alone.   *)
LEMMA SameContent ==
    ASSUME ContentRecorded, UNCHANGED <<order, data, versions, dedup>>
    PROVE  ContentRecorded'
BY DEF ContentRecorded, Content, EventAt

(* Without amendments, a rollback finds only the version that is in force.   *)
LEMMA NothingToRollBack ==
    ASSUME LongType = {}, StoreInv, ContentRecorded,
           NEW c, NEW i \in Nat, NEW v \in Nat, NEW h, RollbackEffect(c, i, v, h)
    PROVE  UNCHANGED <<order, data, versions>>
<1>1. i \in DOMAIN order /\ i \in 0..(rs.total - 1)
  BY DEF RollbackEffect, StoreInv, StoreTypeOK, StoreConsistent
<1>2. get_event_history(i) = <<[data |-> EventAt(i), updated_at |-> EventAt(i).timestamp,
                               updated_by |-> EventAt(i).submitter]>>
  BY DEF ContentRecorded, get_event_history
<1>3. Len(get_event_history(i)) = 1 /\ get_event_history(i)[1].data = EventAt(i) BY <1>2
<1>4. v = 0 BY <1>3 DEF RollbackEffect
<1>5. Restored(i, v) = EventAt(i) BY <1>3, <1>4 DEF Restored
<1>6. IdOf(EventAt(i), i, h) = order[i]
  <2>1. order[i] \in EventId BY <1>1, EventAtType DEF StoreInv
  <2>2. EventAt(i).index = i /\ Addresses(order[i], EventAt(i))
    BY <1>1 DEF StoreInv, StoreConsistent
  <2>3. order[i] = [submitter |-> EventAt(i).submitter, symbol |-> EventAt(i).event_type,
                    metadata |-> EventAt(i).metadata, timestamp |-> EventAt(i).timestamp,
                    index |-> i]
    BY <2>1, <2>2 DEF EventId, Addresses
  <2>. QED BY <2>3 DEF IdOf, compute_event_id, SymbolPayload
<1>. QED BY <1>5, <1>6 DEF RollbackEffect, AmendIfNew

(* A clean-up finds no entry that leads elsewhere.                           *)
LEMMA NothingStale ==
    ASSUME LongType = {}, StoreInv, ContentRecorded, NEW start \in DOMAIN order,
           NEW batch \in 1..rs.total, NEW hs, NEW i \in DOMAIN order
    PROVE  Content(EventAt(i)) \notin StaleContent(start, batch, hs)
<1>1. SUFFICES ASSUME Content(EventAt(i)) \in StaleContent(start, batch, hs) PROVE FALSE
  OBVIOUS
<1>2. PICK j \in start..(start + batch - 1) :
        /\ j < rs.total
        /\ Content(EventAt(i)) = compute_content_hash(EventAt(j).event_type,
                                    EventAt(j).submitter, EventAt(j).metadata, hs[j])
        /\ dedup.content[Content(EventAt(i))] # j
  BY <1>1 DEF StaleContent, Mismatched
<1>3. j \in DOMAIN order BY <1>2 DEF StoreInv, StoreTypeOK, StoreConsistent
<1>4. Content(EventAt(i)) = Content(EventAt(j)) BY <1>2, ShortContent DEF Content
<1>. QED BY <1>2, <1>3, <1>4 DEF ContentRecorded

(* A new event has content that no entry led to, and gets an entry.          *)
LEMMA StoreRecordsContent ==
    ASSUME LongType = {}, StoreInv, DedupInv, ContentRecorded,
           NEW s \in Address, NEW t \in EventType, NEW m \in Metadata,
           NEW cat \in Category, NEW h \in Handle, rs.total < rs.max,
           DuplicatesOf(s, t, m, h, {}) = {}, StoreEvent(s, t, m, cat, h, {}),
           UNCHANGED <<now, versions, snaps, proposals>>
    PROVE  ContentRecorded'
<1>. DEFINE c == <<t, s, m>>
<1>1. compute_content_hash(t, s, m, h) = c BY ShortContent
<1>2. effective_dedup_policy(t) = "ContentHash"
  BY DEF ContentRecorded, effective_dedup_policy, GetOr
<1>3. c \notin DOMAIN dedup.content
  <2>1. c \in DOMAIN dedup.content => dedup.content[c] \in DOMAIN order
    BY DEF DedupInv, DedupSound
  <2>. QED BY <2>1, <1>1, <1>2 DEF DuplicatesOf
<1>4. PICK i \in Nat :
        /\ i = cfg.total
        /\ DOMAIN order' = DOMAIN order \cup {i}
        /\ EventAt(i)' = NewEvent(s, t, m, cat, i, NextId(s, t, m, h), PrevHash(i))
  BY StoredAt
<1>5. Content(EventAt(i)') = c BY <1>4 DEF NewEvent, Content
<1>6. dedup' = [dedup EXCEPT !.content = Put(@, c, i)]
  BY <1>1, <1>2, <1>4 DEF StoreEvent, Recorded
<1>. HIDE DEF c
<1>7. /\ dedup'.policy = dedup.policy /\ dedup'.policyFor = dedup.policyFor
      /\ dedup'.content = Put(dedup.content, c, i)
  BY <1>6 DEF DedupInv, DedupTyped
<1>8. dedup'.content[c] = i /\ c \in DOMAIN dedup'.content BY <1>7 DEF Put
<1>9. ASSUME NEW k \in DOMAIN order
      PROVE  /\ Content(EventAt(k)') \in DOMAIN dedup'.content
             /\ dedup'.content[Content(EventAt(k)')] = k
  <2>1. PICK n \in Nat : Grows(n) BY StoreEventGrows
  <2>2. EventAt(k)' = EventAt(k)
    BY <2>1 DEF Grows, OldKept, EventAt, StoreInv, StoreConsistent
  <2>3. Content(EventAt(k)) \in DOMAIN dedup.content /\ dedup.content[Content(EventAt(k))] = k
    BY DEF ContentRecorded
  <2>4. Content(EventAt(k)) # c BY <2>3, <1>3
  <2>. QED BY <2>2, <2>3, <2>4, <1>7 DEF Put
<1>10. \A k \in DOMAIN order' : /\ Content(EventAt(k)') \in DOMAIN dedup'.content
                                /\ dedup'.content[Content(EventAt(k)')] = k
  BY <1>4, <1>5, <1>8, <1>9
<1>11. \A k \in DOMAIN order' : /\ Content(EventAt(k))' \in DOMAIN dedup'.content
                                /\ dedup'.content[Content(EventAt(k))'] = k
  BY <1>10 DEF Content
<1>. QED BY <1>7, <1>11 DEF ContentRecorded

(* Amendments are out of reach, and clean-ups drop no entry that is needed.  *)
LEMMA HistoryKeepsContent ==
    ASSUME LongType = {}, Calls \cap Duplicating = {}, StoreInv, DedupInv,
           ContentRecorded, HistoryCalls
    PROVE  ContentRecorded'
<1>. USE DEF logVars, extraVars, histVars, govVars
<1>1. PICK c \in Address :
        \/ \E i \in DOMAIN order, v \in 0..(MaxVersions - 1), h \in Handle :
              rollback_event(c, i, v, h)
        \/ create_snapshot(c)
        \/ \E start \in DOMAIN order, batch \in 1..rs.total,
              hs \in [DOMAIN order -> Handle] :
              cleanup_stale_hashes(c, start, batch, hs)
        \/ \E start \in DOMAIN order, batch \in 1..rs.total,
              hs \in [DOMAIN order -> Handle] :
              cleanup_stale_dedup_entries(c, start, batch, hs)
  BY DEF HistoryCalls, Called, Duplicating
<1>2. CASE \E i \in DOMAIN order, v \in 0..(MaxVersions - 1), h \in Handle :
              rollback_event(c, i, v, h)
  <2>1. PICK i \in DOMAIN order, v \in 0..(MaxVersions - 1), h \in Handle :
          RollbackEffect(c, i, v, h) /\ dedup' = dedup
    BY <1>2 DEF rollback_event
  <2>2. i \in Nat /\ v \in Nat BY DEF StoreInv, StoreTypeOK, PartialMap
  <2>3. UNCHANGED <<order, data, versions>> BY <2>1, <2>2, NothingToRollBack
  <2>. QED BY <2>1, <2>3, SameContent
<1>3. CASE create_snapshot(c) BY <1>3, SameContent DEF create_snapshot
<1>4. CASE \/ \E start \in DOMAIN order, batch \in 1..rs.total,
              hs \in [DOMAIN order -> Handle] :
                 cleanup_stale_hashes(c, start, batch, hs)
           \/ \E start \in DOMAIN order, batch \in 1..rs.total,
              hs \in [DOMAIN order -> Handle] :
                 cleanup_stale_dedup_entries(c, start, batch, hs)
  <2>0. PICK start \in DOMAIN order, batch \in 1..rs.total,
             hs \in [DOMAIN order -> Handle] :
          \/ cleanup_stale_hashes(c, start, batch, hs)
          \/ cleanup_stale_dedup_entries(c, start, batch, hs)
    BY <1>4
  <2>. DEFINE keys == StaleContent(start, batch, hs)
              keysTs == StaleContentTs(start, batch, hs)
  <2>1. /\ UNCHANGED <<order, data, versions>>
        /\ \/ dedup' = [dedup EXCEPT !.content = Without(@, keys)]
           \/ dedup' = [dedup EXCEPT !.content = Without(@, keys),
                                     !.contentTs = Without(@, keysTs)]
    BY <2>0 DEF cleanup_stale_hashes, cleanup_stale_dedup_entries
  <2>. HIDE DEF keys, keysTs
  <2>2. /\ dedup'.policy = dedup.policy /\ dedup'.policyFor = dedup.policyFor
        /\ dedup'.content = Without(dedup.content, keys)
    BY <2>1 DEF DedupInv, DedupTyped
  <2>3. \A i \in DOMAIN order : Content(EventAt(i)) \notin keys BY NothingStale DEF keys
  <2>4. \A i \in DOMAIN order : /\ Content(EventAt(i)) \in DOMAIN dedup'.content
                                /\ dedup'.content[Content(EventAt(i))] = i
    BY <2>2, <2>3 DEF ContentRecorded, Without
  <2>5. \A i \in DOMAIN order' : EventAt(i)' = EventAt(i) BY <2>1 DEF EventAt
  <2>. QED BY <2>1, <2>2, <2>4, <2>5 DEF ContentRecorded, Content
<1>. QED BY <1>1, <1>2, <1>3, <1>4

(* A proposal can at most roll back, which changes nothing here.             *)
LEMMA ProposalKeepsContent ==
    ASSUME LongType = {}, StoreInv, ContentRecorded, ProposalCalls
    PROVE  ContentRecorded'
<1>1. dedup' = dedup BY ProposalFrame
<1>2. CASE UNCHANGED <<order, data, versions>> BY <1>1, <1>2, SameContent
<1>3. CASE \E c \in Address, p \in DOMAIN proposals, h \in Handle : execute_proposal(c, p, h)
  <2>1. PICK c \in Address, p \in DOMAIN proposals, h \in Handle : execute_proposal(c, p, h)
    BY <1>3
  <2>. DEFINE a == proposals[p].action
  <2>2. a \in ProposalAction
    <3>1. proposals[p] \in Proposal BY DEF StoreInv, StoreTypeOK
    <3>. QED BY <3>1 DEF Proposal
  <2>3. IF a.kind = "RollbackEvent" THEN RollbackEffect(c, a.index, a.target, h)
        ELSE UNCHANGED <<versions, data, order>>
    BY <2>1 DEF execute_proposal
  <2>. HIDE DEF a
  <2>4. CASE a.kind = "RollbackEvent"
    <3>1. a.index \in Nat /\ a.target \in Nat BY <2>2, <2>4 DEF ProposalAction
    <3>. QED BY <3>1, <2>3, <2>4, NothingToRollBack, <1>2
  <2>5. CASE a.kind # "RollbackEvent" BY <2>3, <2>5, <1>2
  <2>. QED BY <2>4, <2>5
<1>4. UNCHANGED <<order, data, versions>> \/ \E c \in Address, p \in DOMAIN proposals,
                                               h \in Handle : execute_proposal(c, p, h)
  BY DEF ProposalCalls, submit_proposal, approve_proposal, logVars, histVars
<1>. QED BY <1>2, <1>3, <1>4

(* Every step keeps each content leading to its event.                       *)
LEMMA StepRecordsContent ==
    ASSUME LongType = {}, Calls \cap Duplicating = {}, StoreInv, DedupInv,
           ContentRecorded, [Next]_vars
    PROVE  ContentRecorded'
<1>1. CASE LogCalls
  <2>1. PICK s \in Address, t \in EventType, m \in Metadata, h \in Handle :
          \/ log_event_signed(s, t, m, h)
          \/ \E n \in Nonce : log_event_with_nonce(s, t, m, n, h)
    BY <1>1 DEF LogCalls, Called, Duplicating
  <2>2. /\ log_event_with_hierarchy(s, t, m, "general", FALSE, h, {})
        /\ UNCHANGED <<now, versions, snaps, proposals>>
    BY <2>1 DEF log_event_signed, log_event_with_nonce, histVars, govVars
  <2>3. CASE ReturnExisting BY <2>2, <2>3, SameContent DEF ReturnExisting
  <2>4. CASE ~ReturnExisting
    <3>1. rs.total < rs.max BY <2>2 DEF log_event_with_hierarchy, MayLog
    <3>2. /\ DuplicatesOf(s, t, m, h, {}) = {}
          /\ StoreEvent(s, t, m, "general", h, {})
      BY <2>2, <2>4 DEF log_event_with_hierarchy
    <3>. QED BY <2>2, <3>1, <3>2, StoreRecordsContent, TypesAssumption
  <2>. QED BY <2>3, <2>4
<1>2. CASE BatchCalls BY <1>2 DEF BatchCalls, Called, Duplicating
<1>3. CASE NonceCalls BY <1>3, NonceFrame, SameContent
<1>4. CASE HistoryCalls BY <1>4, HistoryKeepsContent
<1>5. CASE AccessCalls BY <1>5, AccessFrame, SameContent
<1>6. CASE LimitCalls
  <2>1. dedup' = dedup
    BY <1>6 DEF LimitCalls, Called, Duplicating, set_global_max_logs,
       set_metadata_max_size, set_submitter_rate_limit, compact_storage,
       set_event_max_logs, remove_event_cap, set_event_metadata_max_size,
       set_metadata_schema, LimitsOnly, logVars
  <2>. QED BY <2>1, <1>6, LimitFrame, SameContent
<1>7. CASE OwnerCalls BY <1>7, OwnerFrame, SameContent
<1>8. CASE ProposalCalls BY <1>8, ProposalKeepsContent
<1>9. CASE Tick \/ EvictTemporary \/ UNCHANGED vars BY <1>9, HostFrame, SameContent
<1>. QED BY <1>1, <1>2, <1>3, <1>4, <1>5, <1>6, <1>7, <1>8, <1>9 DEF Next

(* With event types of short names and without the entry points that may     *)
(* store a copy on purpose, log_event_with_nonce and log_event_signed store  *)
(* no content twice, through retries, clean-ups and executed rollbacks.      *)
THEOREM ContentStoredOnce ==
    ASSUME LongType = {}, Calls \cap Duplicating = {}
    PROVE  Spec => []NoDuplicateContent
<1>1. Init => ContentRecorded BY DEF Init, ContentRecorded, EmptyMap
<1>2. StoreInv /\ DedupInv /\ ContentRecorded /\ [Next]_vars => ContentRecorded'
  BY StepRecordsContent
<1>3. ContentRecorded => NoDuplicateContent BY DEF ContentRecorded, NoDuplicateContent
<1>. QED BY <1>1, <1>2, <1>3, StoreInvariant, DedupInvariant, PTL DEF Spec
=============================================================================
