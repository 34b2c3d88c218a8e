------------------------ MODULE ManagedLedgerProofs ------------------------
(* Proofs about the contract with archive, retention and registry acting on  *)
(* the same events, for all constants: the event store stays consistent,     *)
(* chained and traceable under retention sweeps, too, and what the other     *)
(* parts keep stays true of it.                                              *)
EXTENDS AuditLedgerProofs, ManagedLedger

-----------------------------------------------------------------------------
(* The chain a sweep builds.                                                 *)

(* What position k contributes to the swept chain, and the first n           *)
(* contributions.                                                            *)
SweptLink(E, hs, k) == Link(SweptOrder(E, hs)[k], k, EventAt(k).timestamp)
SweptLinks(E, hs, n) == [k \in 1..n |-> SweptLink(E, hs, k - 1)]

(* The positions in E, of which f is the first, and the handles of a sweep.  *)
SweptFrom(E, hs, f) ==
    /\ E \subseteq DOMAIN order
    /\ f \in E /\ \A j \in E : f <= j
    /\ hs \in [DOMAIN order -> Handle]

(* A redacted event is the same event but for its metadata.                  *)
LEMMA RedactedEvent ==
    ASSUME StoreInv, NEW i \in DOMAIN order, NEW hs \in [DOMAIN order -> Handle]
    PROVE  /\ Updated(i, NoMetadata) \in Event
           /\ Identity(Updated(i, NoMetadata)) = Identity(EventAt(i))
           /\ Updated(i, NoMetadata).metadata = NoMetadata
           /\ Updated(i, NoMetadata).timestamp = EventAt(i).timestamp
           /\ RedactedId(i, hs) \in EventId /\ RedactedId(i, hs).index = i
           /\ \A e : Identity(e) = Identity(EventAt(i)) /\ e.metadata = NoMetadata
                => Addresses(RedactedId(i, hs), e)
<1>. USE DEF StoreInv
<1>1. i \in 0..(rs.total - 1) /\ hs[i] \in Handle BY DEF StoreConsistent
<1>2. EventAt(i) \in Event /\ i \in Nat /\ EventAt(i).index = i
  BY <1>1, EventAtType DEF StoreConsistent
<1>. DEFINE e == Updated(i, NoMetadata)
<1>3. e \in Event /\ Identity(e) = Identity(EventAt(i)) /\ e.metadata = NoMetadata
      /\ e.timestamp = EventAt(i).timestamp /\ e.index = i
  BY <1>2, RetentionAssumption DEF Updated, Event, Identity
<1>. HIDE DEF e
<1>4. /\ e.submitter \in Address /\ e.event_type \in EventType
      /\ e.metadata \in Metadata /\ e.timestamp \in Nat
  BY <1>3 DEF Event
<1>5. RedactedId(i, hs) =
        compute_event_id(e.submitter, e.event_type, e.metadata, e.timestamp, i, hs[i])
  BY DEF RedactedId, IdOf, e
<1>6. RedactedId(i, hs) \in EventId /\ RedactedId(i, hs).index = i
  BY <1>1, <1>2, <1>4, <1>5, EventIdType
<1>7. ASSUME NEW x, Identity(x) = Identity(EventAt(i)), x.metadata = NoMetadata
      PROVE  Addresses(RedactedId(i, hs), x)
  <2>1. /\ x.submitter = e.submitter /\ x.event_type = e.event_type
        /\ x.metadata = e.metadata /\ x.timestamp = e.timestamp /\ x.index = i
    BY <1>2, <1>3, <1>7 DEF Identity
  <2>. QED BY <2>1, <1>1, <1>2, <1>4, <1>5, EventIdType
<1>. QED BY <1>3, <1>6, <1>7 DEF e

(* The swept chain in closed form.                                           *)
LEMMA SweptChain ==
    ASSUME StoreInv, NEW E, NEW hs, NEW f, SweptFrom(E, hs, f)
    PROVE  /\ f \in Nat /\ f \in DOMAIN order
           /\ \A k \in DOMAIN order : /\ SweptOrder(E, hs)[k] \in EventId
                                      /\ SweptOrder(E, hs)[k].index = k
                                      /\ SweptLink(E, hs, k) \in LinkSet
           /\ \A n \in 0..rs.total : SweptLinks(E, hs, n) \in [1..n -> LinkSet]
           /\ \A n \in 0..f : SweptLinks(E, hs, n) = Links(n)
           /\ \A k \in (f - 1)..(rs.total - 1) :
                SweptHash(E, hs, f, k) = SweptLinks(E, hs, k + 1)
<1>. USE DEF StoreInv
<1>1. /\ f \in DOMAIN order /\ E \subseteq DOMAIN order /\ hs \in [DOMAIN order -> Handle]
      /\ \A j \in E : f <= j
  BY DEF SweptFrom
<1>2. /\ rs.total \in Nat /\ DOMAIN order = 0..(rs.total - 1) /\ f \in Nat /\ f < rs.total
  BY <1>1 DEF StoreConsistent, StoreTypeOK
<1>3. ASSUME NEW k \in DOMAIN order
      PROVE  /\ SweptOrder(E, hs)[k] \in EventId /\ SweptOrder(E, hs)[k].index = k
             /\ SweptLink(E, hs, k) \in LinkSet
             /\ k < f => SweptLink(E, hs, k) = LinkAt(k)
  <2>1. k \in Nat /\ order[k] \in EventId /\ order[k].index = k /\ EventAt(k).timestamp \in Nat
    BY <1>2, EventAtType DEF StoreConsistent, Addresses
  <2>2. RedactedId(k, hs) \in EventId /\ RedactedId(k, hs).index = k BY <1>1, RedactedEvent
  <2>3. SweptOrder(E, hs)[k] = IF k \in E THEN RedactedId(k, hs) ELSE order[k]
    BY DEF SweptOrder
  <2>4. k < f => k \notin E BY <1>1, <1>2, <2>1
  <2>. QED BY <2>1, <2>2, <2>3, <2>4 DEF SweptLink, Link, LinkSet, LinkAt
<1>4. ASSUME NEW n \in 0..rs.total
      PROVE  SweptLinks(E, hs, n) \in [1..n -> LinkSet]
  <2>1. \A k \in 1..n : k - 1 \in DOMAIN order BY <1>2
  <2>. QED BY <2>1, <1>3 DEF SweptLinks
<1>5. ASSUME NEW n \in 0..f PROVE SweptLinks(E, hs, n) = Links(n)
  <2>1. \A k \in 1..n : k - 1 \in DOMAIN order /\ k - 1 < f BY <1>2
  <2>. QED BY <2>1, <1>3 DEF SweptLinks, Links
<1>6. ASSUME NEW k \in (f - 1)..(rs.total - 1)
      PROVE  SweptHash(E, hs, f, k) = SweptLinks(E, hs, k + 1)
  <2>. DEFINE m == k - f + 1
              tail == [n \in 1..m |-> Link(SweptOrder(E, hs)[f + n - 1], f + n - 1,
                                           EventAt(f + n - 1).timestamp)]
  <2>1. /\ m \in Nat /\ f + m = k + 1 /\ k + 1 \in 0..rs.total /\ f \in 0..rs.total /\ f \in 0..f
    BY <1>2
  <2>2. PrevHash(f) = Links(f) /\ Links(f) = SweptLinks(E, hs, f)
    BY <2>1, <1>5, PrevHashLinks
  <2>3. ASSUME NEW n \in 1..m
        PROVE  /\ tail[n] = SweptLink(E, hs, f + n - 1)
               /\ f + n - 1 \in DOMAIN order /\ f + n \in 1..(k + 1)
    <3>1. f + n - 1 \in DOMAIN order /\ f + n \in 1..(k + 1) BY <2>1, <1>2
    <3>2. tail[n] = SweptLink(E, hs, f + n - 1)
      <4>. HIDE DEF m
      <4>. QED BY DEF SweptLink
    <3>. QED BY <3>1, <3>2
  <2>4. tail \in [1..m -> LinkSet] BY <2>3, <1>3
  <2>5. ASSUME NEW n \in 1..m PROVE tail[n] = SweptLinks(E, hs, k + 1)[f + n]
    <3>1. f + n \in 1..(k + 1) /\ tail[n] = SweptLink(E, hs, f + n - 1) BY <2>3
    <3>2. PICK x \in 1..(k + 1) : x = f + n BY <3>1
    <3>3. SweptLinks(E, hs, k + 1)[x] = SweptLink(E, hs, x - 1) BY DEF SweptLinks
    <3>4. x - 1 = f + n - 1 BY <1>2, <2>1, <3>2
    <3>. HIDE DEF tail, m
    <3>. QED BY <3>1, <3>2, <3>3, <3>4, Zenon
  <2>6. \A n \in 1..f : SweptLinks(E, hs, f)[n] = SweptLinks(E, hs, k + 1)[n]
    BY <2>1, <1>2 DEF SweptLinks
  <2>7. /\ SweptLinks(E, hs, f) \in [1..f -> LinkSet]
        /\ SweptLinks(E, hs, k + 1) \in [1..(f + m) -> LinkSet]
    BY <2>1, <1>4
  <2>8. Splits(SweptLinks(E, hs, k + 1), SweptLinks(E, hs, f), tail, f, m, LinkSet)
    <3>. HIDE DEF tail, m
    <3>. QED BY <2>1, <2>4, <2>5, <2>6, <2>7, <1>2 DEF Splits
  <2>9. SweptLinks(E, hs, f) \o tail = SweptLinks(E, hs, k + 1) BY <2>8, ConcatRule
  <2>10. SweptHash(E, hs, f, k) = PrevHash(f) \o tail BY DEF SweptHash
  <2>. HIDE DEF tail
  <2>. QED BY <2>2, <2>9, <2>10
<1>. QED BY <1>1, <1>2, <1>3, <1>4, <1>5, <1>6


(* An event hashed onto the swept chain keeps all but its hashes, and has    *)
(* the hashes of that chain when its id is the one the sweep leaves there.   *)
LEMMA SweptEvent ==
    ASSUME StoreInv, NEW E, NEW hs, NEW f, SweptFrom(E, hs, f),
           NEW k \in DOMAIN order, f <= k,
           NEW e \in Event, e.timestamp = EventAt(k).timestamp, NEW id \in EventId
    PROVE  LET s == OnSweptChain(E, hs, f, k, e, id)
           IN  /\ s \in Event /\ Identity(s) = Identity(e)
               /\ s.metadata = e.metadata /\ s.timestamp = e.timestamp
               /\ s.prev_hash = SweptLinks(E, hs, k)
               /\ id = SweptOrder(E, hs)[k] => s.event_hash = SweptLinks(E, hs, k + 1)
<1>. DEFINE L == SweptLinks(E, hs, k)
            link == Link(id, k, e.timestamp)
            s == OnSweptChain(E, hs, f, k, e, id)
<1>1. /\ f \in Nat /\ rs.total \in Nat /\ DOMAIN order = 0..(rs.total - 1) /\ k \in Nat
      /\ e.timestamp \in Nat
  BY SweptChain DEF StoreInv, StoreTypeOK, StoreConsistent, Event
<1>2. k - 1 \in (f - 1)..(rs.total - 1) /\ (k - 1) + 1 = k /\ k \in 0..rs.total
      /\ k + 1 \in 0..rs.total
  BY <1>1
<1>3. SweptHash(E, hs, f, k - 1) = L BY <1>2, SweptChain
<1>4. L \in [1..k -> LinkSet] BY <1>2, SweptChain
<1>5. link \in LinkSet BY <1>1 DEF Link, LinkSet
<1>6. L \in Seq(LinkSet) BY <1>1, <1>4, RuleIsSeq
<1>7. Append(L, link) \in Seq(LinkSet)
  <2>. HIDE DEF L, link
  <2>. QED BY <1>5, <1>6, AppendProperties
<1>8. s = [e EXCEPT !.prev_hash = L, !.event_hash = Append(L, link)]
  BY <1>3 DEF OnSweptChain, compute_event_hash
<1>9. L \in Hash /\ Append(L, link) \in Hash BY <1>6, <1>7 DEF Hash, LinkSet
<1>10. /\ s \in Event /\ Identity(s) = Identity(e)
       /\ s.metadata = e.metadata /\ s.timestamp = e.timestamp
       /\ s.prev_hash = L /\ s.event_hash = Append(L, link)
  <2>. HIDE DEF L, link, s
  <2>. QED BY <1>8, <1>9 DEF Event, Identity
<1>11. ASSUME id = SweptOrder(E, hs)[k]
       PROVE  Append(L, link) = SweptLinks(E, hs, k + 1)
  <2>. DEFINE M == SweptLinks(E, hs, k + 1)
  <2>1. M \in [1..(k + 1) -> LinkSet] BY <1>2, SweptChain
  <2>2. \A j \in 1..k : L[j] = M[j] BY <1>1 DEF SweptLinks
  <2>3. M[k + 1] = link
    <3>1. k + 1 \in 1..(k + 1) /\ (k + 1) - 1 = k BY <1>1
    <3>2. M[k + 1] = SweptLink(E, hs, k) BY <3>1 DEF SweptLinks
    <3>. QED BY <3>2, <1>11 DEF SweptLink
  <2>. HIDE DEF L, M, link
  <2>. QED BY <2>1, <2>2, <2>3, <1>1, <1>4, AppendRule DEF M
<1>. QED BY <1>10, <1>11

-----------------------------------------------------------------------------
(* Steps that amend several events at once.                                  *)

(* The positions in E get new ids and metadata, each its own new version;    *)
(* the others keep both; all have the hashes of the new chain.               *)
Redacts(E) ==
    /\ E \subseteq DOMAIN order
    /\ DOMAIN order' = DOMAIN order
    /\ PartialMap(data', EventId, Event)
    /\ \A k \in DOMAIN order :
         /\ order'[k] \in EventId /\ order'[k] \in DOMAIN data'
         /\ EventAt(k)'.index = k /\ Addresses(order'[k], EventAt(k)')
         /\ Identity(EventAt(k)') = Identity(EventAt(k))
         /\ EventAt(k)'.timestamp = EventAt(k).timestamp
         /\ EventAt(k)'.prev_hash = Links(k)'
         /\ EventAt(k)'.event_hash = Links(k + 1)'
         /\ k \notin E => /\ order'[k] = order[k]
                          /\ EventAt(k)'.metadata = EventAt(k).metadata
    /\ DOMAIN versions' = DOMAIN versions \cup E
    /\ \A k \in DOMAIN versions : k \notin E => versions'[k] = versions[k]
    /\ \A k \in E :
         /\ versions'[k] \in Seq(Version)
         /\ Len(versions'[k]) = Len(get_event_history(k)) + 1
         /\ \A v \in 1..Len(get_event_history(k)) :
              /\ Identity(versions'[k][v].data) = Identity(EventAt(k))
              /\ versions'[k][v].data.metadata = get_event_history(k)[v].data.metadata
         /\ versions'[k][Len(get_event_history(k)) + 1].data = EventAt(k)'

(* Such a step keeps the store invariant.                                    *)
LEMMA RedactionKeepsStore ==
    ASSUME StoreInv, AmendFrame, NEW E, Redacts(E)
    PROVE  StoreInv'
<1>. USE DEF StoreInv, AmendFrame
<1>1. StoreTypeOK'
  <2>1. PartialMap(order', Nat, EventId) BY DEF Redacts, PartialMap, StoreTypeOK
  <2>2. PartialMap(versions', Nat, Seq(Version))
    <3>1. DOMAIN versions' \subseteq Nat BY DEF Redacts, PartialMap, StoreTypeOK
    <3>2. ASSUME NEW k \in DOMAIN versions' PROVE versions'[k] \in Seq(Version)
      <4>1. CASE k \in E BY <4>1 DEF Redacts
      <4>2. CASE k \notin E
        <5>1. k \in DOMAIN versions /\ versions'[k] = versions[k] BY <4>2, <3>2 DEF Redacts
        <5>. QED BY <5>1 DEF PartialMap, StoreTypeOK
      <4>. QED BY <4>1, <4>2
    <3>. QED BY <3>1, <3>2 DEF PartialMap
  <2>3. PartialMap(data', EventId, Event) BY DEF Redacts
  <2>. QED BY <2>1, <2>2, <2>3 DEF StoreTypeOK
<1>2. StoreConsistent' BY DEF StoreConsistent, Redacts
<1>3. HashCommitsToPrefix' BY DEF HashCommitsToPrefix, Redacts
<1>4. WithinGlobalMax' BY DEF WithinGlobalMax
<1>5. TimestampsOrdered' BY DEF TimestampsOrdered, Redacts
<1>6. HistoryFaithful'
  <2>1. ASSUME NEW k \in DOMAIN versions'
        PROVE  /\ k \in DOMAIN order' /\ Len(versions'[k]) > 1
               /\ versions'[k][Len(versions'[k])].data.metadata = EventAt(k)'.metadata
               /\ \A v \in DOMAIN versions'[k] :
                    Identity(versions'[k][v].data) = Identity(EventAt(k)')
    <3>1. CASE k \notin E
      <4>1. k \in DOMAIN versions /\ versions'[k] = versions[k] BY <2>1, <3>1 DEF Redacts
      <4>2. /\ k \in DOMAIN order /\ Len(versions[k]) > 1
            /\ versions[k][Len(versions[k])].data.metadata = EventAt(k).metadata
            /\ \A v \in DOMAIN versions[k] :
                 Identity(versions[k][v].data) = Identity(EventAt(k))
        BY <4>1 DEF HistoryFaithful
      <4>3. /\ k \in DOMAIN order' /\ EventAt(k)'.metadata = EventAt(k).metadata
            /\ Identity(EventAt(k)') = Identity(EventAt(k))
        BY <3>1, <4>2 DEF Redacts
      <4>. QED BY <4>1, <4>2, <4>3
    <3>2. CASE k \in E
      <4>. DEFINE n == Len(get_event_history(k))
      <4>1. k \in DOMAIN order /\ k \in DOMAIN order' BY <3>2 DEF Redacts
      <4>2. n \in Nat /\ n > 0 BY <4>1, HistoryType
      <4>3. /\ versions'[k] \in Seq(Version) /\ Len(versions'[k]) = n + 1
            /\ \A v \in 1..n : Identity(versions'[k][v].data) = Identity(EventAt(k))
            /\ versions'[k][n + 1].data = EventAt(k)'
            /\ Identity(EventAt(k)') = Identity(EventAt(k))
        BY <3>2, <4>1 DEF Redacts
      <4>. HIDE DEF n
      <4>4. DOMAIN versions'[k] = 1..(n + 1) BY <4>3
      <4>5. \A v \in 1..(n + 1) : v \in 1..n \/ v = n + 1 BY <4>2
      <4>. QED BY <4>1, <4>2, <4>3, <4>4, <4>5
    <3>. QED BY <3>1, <3>2
  <2>. QED BY <2>1 DEF HistoryFaithful
<1>. QED BY <1>1, <1>2, <1>3, <1>4, <1>5, <1>6

(* run_retention_sweep's effect on the events it rewrites is of that kind.   *)
LEMMA SweepRedacts ==
    ASSUME StoreInv, NEW c \in Address, NEW E \in SUBSET DOMAIN order, E # {},
           NEW hs \in [DOMAIN order -> Handle], Sweep(c, E, hs)
    PROVE  Redacts(E)
<1>. USE DEF StoreInv
<1>. DEFINE first == CHOOSE i \in E : \A j \in E : i <= j
<1>1. /\ rs.total \in Nat /\ DOMAIN order = 0..(rs.total - 1) /\ now \in Nat
  BY DEF StoreTypeOK, StoreConsistent
<1>2. first \in E /\ \A j \in E : first <= j
  <2>1. E \in SUBSET Nat BY <1>1
  <2>2. \E i \in E : \A j \in E : i <= j BY <2>1, LeastNumber
  <2>. QED BY <2>2
<1>3. PICK f : f = first OBVIOUS
<1>. DEFINE redacted(i) == OnSweptChain(E, hs, f, i, Updated(i, NoMetadata), RedactedId(i, hs))
            former(i) == IF i = f THEN EventAt(i)
                         ELSE OnSweptChain(E, hs, f, i, EventAt(i), order[i])
            history(i) == IF i \in DOMAIN versions THEN versions[i]
                          ELSE <<[data |-> former(i), updated_at |-> EventAt(i).timestamp,
                                  updated_by |-> EventAt(i).submitter]>>
            new == {RedactedId(i, hs) : i \in E}
<1>4. SweptFrom(E, hs, f) BY <1>2, <1>3 DEF SweptFrom
<1>5. /\ order' = SweptOrder(E, hs)
      /\ data' = [id \in DOMAIN data \cup new |->
                    IF id \in new THEN redacted(id.index)
                    ELSE IF id.index \in f..(rs.total - 1) /\ order[id.index] = id
                    THEN former(id.index)
                    ELSE data[id]]
      /\ versions' = [i \in DOMAIN versions \cup E |->
                        IF i \in E THEN Append(history(i), VersionOf(c, redacted(i)))
                        ELSE versions[i]]
  BY <1>3 DEF Sweep
<1>. HIDE DEF first
<1>6. f \in Nat /\ f \in DOMAIN order /\ f \in E /\ \A j \in E : f <= j BY <1>4, SweptChain DEF SweptFrom
<1>7. ASSUME NEW k \in DOMAIN order
      PROVE  /\ k \in Nat /\ order[k] \in EventId /\ order[k] \in DOMAIN data
             /\ order[k].index = k /\ EventAt(k) \in Event /\ EventAt(k).index = k
             /\ data[order[k]] = EventAt(k) /\ Addresses(order[k], EventAt(k))
             /\ k \in 0..(rs.total - 1)
             /\ EventAt(k).prev_hash = Links(k) /\ EventAt(k).event_hash = Links(k + 1)
  BY <1>1, <1>7, EventAtType DEF StoreConsistent, Addresses, HashCommitsToPrefix, EventAt
(* What is stored at each position.                                          *)
<1>8. ASSUME NEW k \in E
      PROVE  /\ redacted(k) \in Event /\ Identity(redacted(k)) = Identity(EventAt(k))
             /\ redacted(k).metadata = NoMetadata
             /\ redacted(k).timestamp = EventAt(k).timestamp
             /\ redacted(k).prev_hash = SweptLinks(E, hs, k)
             /\ redacted(k).event_hash = SweptLinks(E, hs, k + 1)
             /\ Addresses(RedactedId(k, hs), redacted(k))
             /\ RedactedId(k, hs) \in EventId /\ RedactedId(k, hs).index = k
             /\ SweptOrder(E, hs)[k] = RedactedId(k, hs)
  <2>1. k \in DOMAIN order /\ f <= k BY <1>6
  <2>2. SweptOrder(E, hs)[k] = RedactedId(k, hs) BY <2>1 DEF SweptOrder
  <2>3. /\ Updated(k, NoMetadata) \in Event
        /\ Identity(Updated(k, NoMetadata)) = Identity(EventAt(k))
        /\ Updated(k, NoMetadata).metadata = NoMetadata
        /\ Updated(k, NoMetadata).timestamp = EventAt(k).timestamp
        /\ RedactedId(k, hs) \in EventId /\ RedactedId(k, hs).index = k
        /\ \A e : Identity(e) = Identity(EventAt(k)) /\ e.metadata = NoMetadata
                    => Addresses(RedactedId(k, hs), e)
    BY <2>1, RedactedEvent
  <2>4. PICK e \in Event : e = Updated(k, NoMetadata) BY <2>3
  <2>5. PICK id \in EventId : id = RedactedId(k, hs) BY <2>3
  <2>6. PICK s : s = OnSweptChain(E, hs, f, k, e, id) OBVIOUS
  <2>7. /\ s \in Event /\ Identity(s) = Identity(e)
        /\ s.metadata = e.metadata /\ s.timestamp = e.timestamp
        /\ s.prev_hash = SweptLinks(E, hs, k)
        /\ s.event_hash = SweptLinks(E, hs, k + 1)
    BY <1>4, <2>1, <2>2, <2>3, <2>4, <2>5, <2>6, SweptEvent
  <2>8. redacted(k) = s BY <2>4, <2>5, <2>6
  <2>. HIDE DEF redacted
  <2>. QED BY <2>2, <2>3, <2>4, <2>7, <2>8
<1>9. ASSUME NEW k \in DOMAIN order, k >= f
      PROVE  /\ former(k) \in Event /\ Identity(former(k)) = Identity(EventAt(k))
             /\ former(k).metadata = EventAt(k).metadata
             /\ former(k).timestamp = EventAt(k).timestamp
             /\ k \notin E => /\ former(k).prev_hash = SweptLinks(E, hs, k)
                              /\ former(k).event_hash = SweptLinks(E, hs, k + 1)
  <2>1. CASE k = f BY <2>1, <1>6, <1>7
  <2>2. CASE k # f
    <3>1. f <= k BY <1>6, <1>7, <1>9
    <3>2. PICK e \in Event : e = EventAt(k) BY <1>7
    <3>3. PICK id \in EventId : id = order[k] BY <1>7
    <3>4. PICK s : s = OnSweptChain(E, hs, f, k, e, id) OBVIOUS
    <3>5. k \notin E => id = SweptOrder(E, hs)[k] BY <3>3 DEF SweptOrder
    <3>6. /\ s \in Event /\ Identity(s) = Identity(e)
          /\ s.metadata = e.metadata /\ s.timestamp = e.timestamp
          /\ s.prev_hash = SweptLinks(E, hs, k)
          /\ k \notin E => s.event_hash = SweptLinks(E, hs, k + 1)
      BY <1>4, <3>1, <3>2, <3>4, <3>5, SweptEvent
    <3>7. former(k) = s BY <2>2, <3>2, <3>3, <3>4
    <3>. HIDE DEF former
    <3>. QED BY <3>2, <3>6, <3>7
  <2>. QED BY <2>1, <2>2
<1>. HIDE DEF redacted, former
<1>10. ASSUME NEW k \in DOMAIN order, k \notin E PROVE order[k] \notin new
  <2>1. \A i \in E : RedactedId(i, hs) # order[k] BY <1>7, <1>8, <1>10
  <2>. QED BY <2>1
<1>11. /\ DOMAIN order' = DOMAIN order
       /\ \A k \in DOMAIN order : k \notin E => order'[k] = order[k]
       /\ \A k \in E : order'[k] = RedactedId(k, hs)
  BY <1>5 DEF SweptOrder
<1>12. ASSUME NEW k \in E
       PROVE  EventAt(k)' = redacted(k) /\ order'[k] \in DOMAIN data'
  <2>1. RedactedId(k, hs) \in new /\ RedactedId(k, hs).index = k BY <1>8
  <2>2. RedactedId(k, hs) \in DOMAIN data' BY <1>5, <2>1
  <2>3. data'[RedactedId(k, hs)] = redacted(k) BY <1>5, <2>1
  <2>. QED BY <1>11, <2>2, <2>3 DEF EventAt
<1>13. ASSUME NEW k \in DOMAIN order, k \notin E
       PROVE  /\ order'[k] = order[k] /\ order'[k] \in DOMAIN data'
              /\ EventAt(k)' = IF k >= f THEN former(k) ELSE EventAt(k)
  <2>1. order[k] \notin new /\ order[k] \in DOMAIN data /\ order[k].index = k
        /\ data[order[k]] = EventAt(k)
    BY <1>7, <1>10, <1>13
  <2>2. order'[k] = order[k] BY <1>11, <1>13
  <2>3. order[k] \in DOMAIN data' BY <1>5, <2>1
  <2>4. k \in f..(rs.total - 1) <=> k >= f BY <1>1, <1>6
  <2>5. data'[order[k]] = IF k >= f THEN former(k) ELSE EventAt(k) BY <1>5, <2>1, <2>4
  <2>. QED BY <2>2, <2>3, <2>5 DEF EventAt
(* The chain of the new log.                                                 *)
<1>14. ASSUME NEW k \in DOMAIN order
       PROVE  /\ EventAt(k)'.timestamp = EventAt(k).timestamp
              /\ Identity(EventAt(k)') = Identity(EventAt(k))
              /\ LinkAt(k)' = SweptLink(E, hs, k)
  <2>1. CASE k \in E
    <3>1. EventAt(k)'.timestamp = EventAt(k).timestamp /\ Identity(EventAt(k)') = Identity(EventAt(k))
      BY <2>1, <1>8, <1>12
    <3>. QED BY <3>1, <1>5 DEF LinkAt, SweptLink
  <2>2. CASE k \notin E
    <3>1. EventAt(k)'.timestamp = EventAt(k).timestamp /\ Identity(EventAt(k)') = Identity(EventAt(k))
      BY <2>2, <1>9, <1>13
    <3>. QED BY <3>1, <1>5 DEF LinkAt, SweptLink
  <2>. QED BY <2>1, <2>2
<1>15. ASSUME NEW n \in 0..rs.total PROVE Links(n)' = SweptLinks(E, hs, n)
  <2>1. \A k \in 1..n : k - 1 \in DOMAIN order BY <1>1
  <2>2. \A k \in 1..n : LinkAt(k - 1)' = SweptLink(E, hs, k - 1) BY <2>1, <1>14
  <2>. QED BY <2>2 DEF Links, SweptLinks
<1>16. ASSUME NEW k \in DOMAIN order
       PROVE  /\ order'[k] \in EventId /\ order'[k] \in DOMAIN data'
              /\ EventAt(k)'.index = k /\ Addresses(order'[k], EventAt(k)')
              /\ Identity(EventAt(k)') = Identity(EventAt(k))
              /\ EventAt(k)'.timestamp = EventAt(k).timestamp
              /\ EventAt(k)'.prev_hash = Links(k)'
              /\ EventAt(k)'.event_hash = Links(k + 1)'
              /\ k \notin E => /\ order'[k] = order[k]
                               /\ EventAt(k)'.metadata = EventAt(k).metadata
  <2>1. k \in 0..rs.total /\ k + 1 \in 0..rs.total BY <1>1
  <2>2. Links(k)' = SweptLinks(E, hs, k) /\ Links(k + 1)' = SweptLinks(E, hs, k + 1)
    BY <2>1, <1>15
  <2>3. EventAt(k)'.index = k BY <1>7, <1>14 DEF Identity
  <2>4. CASE k \in E BY <2>2, <2>3, <2>4, <1>8, <1>11, <1>12, <1>14
  <2>5. CASE k \notin E /\ k >= f
    <3>1. EventAt(k)' = former(k) /\ order'[k] = order[k] /\ order'[k] \in DOMAIN data'
      BY <2>5, <1>13
    <3>2. Addresses(order[k], former(k))
      BY <2>5, <1>7, <1>9 DEF Addresses, Identity
    <3>. QED BY <2>2, <2>3, <2>5, <3>1, <3>2, <1>7, <1>9, <1>14
  <2>6. CASE k \notin E /\ ~(k >= f)
    <3>1. EventAt(k)' = EventAt(k) /\ order'[k] = order[k] /\ order'[k] \in DOMAIN data'
      BY <2>6, <1>13
    <3>2. k \in 0..f /\ k + 1 \in 0..f BY <2>6, <1>6, <1>7
    <3>3. SweptLinks(E, hs, k) = Links(k) /\ SweptLinks(E, hs, k + 1) = Links(k + 1)
      BY <3>2, <1>4, SweptChain
    <3>. QED BY <2>2, <2>6, <3>1, <3>3, <1>7
  <2>. QED BY <2>4, <2>5, <2>6
<1>17. PartialMap(data', EventId, Event)
  <2>1. ASSUME NEW x \in DOMAIN data' PROVE x \in EventId /\ data'[x] \in Event
    <3>1. CASE x \in new
      <4>1. PICK k \in E : x = RedactedId(k, hs) BY <3>1
      <4>2. x \in EventId /\ x.index = k /\ redacted(k) \in Event BY <4>1, <1>8
      <4>3. data'[x] = redacted(x.index) BY <3>1, <1>5
      <4>. QED BY <4>2, <4>3
    <3>2. CASE x \notin new
      <4>1. x \in DOMAIN data BY <3>2, <2>1, <1>5
      <4>2. x \in EventId /\ data[x] \in Event BY <4>1 DEF StoreTypeOK, PartialMap
      <4>3. data'[x] = IF x.index \in f..(rs.total - 1) /\ order[x.index] = x
                       THEN former(x.index) ELSE data[x]
        BY <3>2, <4>1, <1>5
      <4>4. CASE x.index \in f..(rs.total - 1)
        <5>1. x.index \in DOMAIN order /\ x.index >= f BY <4>4, <1>1, <1>6
        <5>2. former(x.index) \in Event BY <5>1, <1>9
        <5>. QED BY <4>2, <4>3, <5>2
      <4>5. CASE x.index \notin f..(rs.total - 1) BY <4>2, <4>3, <4>5
      <4>. QED BY <4>4, <4>5
    <3>. QED BY <3>1, <3>2
  <2>. QED BY <2>1 DEF PartialMap
(* Histories.                                                                *)
<1>18. DOMAIN versions' = DOMAIN versions \cup E
       /\ \A k \in DOMAIN versions : k \notin E => versions'[k] = versions[k]
  BY <1>5
<1>19. ASSUME NEW k \in E
       PROVE  /\ versions'[k] \in Seq(Version)
              /\ Len(versions'[k]) = Len(get_event_history(k)) + 1
              /\ \A v \in 1..Len(get_event_history(k)) :
                   /\ Identity(versions'[k][v].data) = Identity(EventAt(k))
                   /\ versions'[k][v].data.metadata = get_event_history(k)[v].data.metadata
              /\ versions'[k][Len(get_event_history(k)) + 1].data = EventAt(k)'
  <2>. DEFINE ver == VersionOf(c, redacted(k))
  <2>1. k \in DOMAIN order /\ k >= f BY <1>6, <1>7
  <2>2. ver \in Version /\ ver.data = EventAt(k)' 
    BY <1>1, <1>8, <1>12 DEF VersionOf, Version
  <2>3. PICK g : g = get_event_history(k) OBVIOUS
  <2>4. /\ g \in Seq(Version) /\ Len(g) \in Nat /\ Len(g) > 0
        /\ \A v \in 1..Len(g) : Identity(g[v].data) = Identity(EventAt(k))
    BY <2>1, <2>3, HistoryType
  <2>5. PICK hist : hist = history(k) OBVIOUS
  <2>6. /\ hist \in Seq(Version) /\ Len(hist) = Len(g)
        /\ \A v \in 1..Len(g) : /\ Identity(hist[v].data) = Identity(EventAt(k))
                               /\ hist[v].data.metadata = g[v].data.metadata
    <3>1. CASE k \in DOMAIN versions
      <4>1. hist = g BY <3>1, <2>3, <2>5 DEF get_event_history
      <4>. QED BY <4>1, <2>4
    <3>2. CASE k \notin DOMAIN versions
      <4>. DEFINE p == [data |-> former(k), updated_at |-> EventAt(k).timestamp,
                        updated_by |-> EventAt(k).submitter]
                  q == [data |-> EventAt(k), updated_at |-> EventAt(k).timestamp,
                        updated_by |-> EventAt(k).submitter]
      <4>1. hist = <<p>> /\ g = <<q>> BY <3>2, <2>3, <2>5 DEF get_event_history
      <4>2. p.data = former(k) /\ q.data = EventAt(k) OBVIOUS
      <4>3. p \in Version BY <2>1, <1>7, <1>9 DEF Version, Event
      <4>4. /\ Identity(p.data) = Identity(EventAt(k))
            /\ p.data.metadata = q.data.metadata
        BY <4>2, <2>1, <1>9
      <4>. HIDE DEF p, q
      <4>. QED BY <4>1, <4>3, <4>4
    <3>. QED BY <3>1, <3>2
  <2>7. versions'[k] = Append(hist, ver) BY <1>5, <2>5
  <2>. HIDE DEF ver, history
  <2>8. /\ Append(hist, ver) \in Seq(Version) /\ Len(Append(hist, ver)) = Len(hist) + 1
        /\ \A v \in 1..Len(hist) : Append(hist, ver)[v] = hist[v]
        /\ Append(hist, ver)[Len(hist) + 1] = ver
    BY <2>2, <2>6, AppendProperties
  <2>. QED BY <2>2, <2>3, <2>6, <2>7, <2>8
<1>. QED BY <1>11, <1>16, <1>17, <1>18, <1>19 DEF Redacts


-----------------------------------------------------------------------------
(* Retention: what its calls do to requests and erasure records.             *)

ErasureRequest == [index : DOMAIN order, status : ErasureStatus]

(* Every request is for an event of the log.                                 *)
RequestsFiled ==
    /\ DOMAIN ret = {"policy", "default", "holds", "exceptions", "requests", "erased",
                     "recorders"}
    /\ ret.requests \in Seq(ErasureRequest)

(* The erasure of the event at position i is allowed in this step.           *)
Sanctioned(i) ==
    /\ ~is_under_legal_hold(i)
    /\ ~has_active_compliance_exception(i)
    /\ ~Operational(i)
    /\ \/ Overdue(i)
       \/ \E k \in DOMAIN ret.requests :
            /\ ret.requests[k] = [index |-> i, status |-> "Pending"]
            /\ ret'.requests[k].status = "Fulfilled"

(* The record of position i is as before, or a sanctioned new one.           *)
RecordKept(i) == i \in DOMAIN ret.erased /\ ret'.erased[i] = ret.erased[i]
RecordMade(i) == i \in DOMAIN order /\ ret'.erased[i] = EventAt(i).metadata /\ Sanctioned(i)

(* Requests stay filed, and records are kept or made.                        *)
RetentionMove ==
    /\ DOMAIN ret' = DOMAIN ret
    /\ ret'.requests \in Seq(ErasureRequest)
    /\ \A i \in DOMAIN ret'.erased : RecordKept(i) \/ RecordMade(i)

(* The calls that touch neither requests nor records.                        *)
LEMMA PolicyMove ==
    ASSUME RequestsFiled, DOMAIN ret' = DOMAIN ret,
           ret'.requests = ret.requests, ret'.erased = ret.erased
    PROVE  RetentionMove
BY DEF RequestsFiled, RetentionMove, RecordKept

(* Deciding on a request writes one record at most, for the event asked for. *)
LEMMA DecisionMove ==
    ASSUME StoreInv, RequestsFiled, NEW c \in Address, NEW k \in DOMAIN ret.requests,
           NEW approve \in BOOLEAN, NEW h \in Handle,
           process_erasure_request(c, k, approve, h)
    PROVE  RetentionMove
<1>1. /\ ret.requests \in Seq(ErasureRequest)
      /\ ret.requests[k] \in ErasureRequest /\ ret.requests[k].status = "Pending"
  BY DEF RequestsFiled, process_erasure_request
<1>2. PICK i \in DOMAIN order : i = ret.requests[k].index BY <1>1 DEF ErasureRequest
<1>3. ret.requests[k] = [index |-> i, status |-> "Pending"] BY <1>1, <1>2 DEF ErasureRequest
<1>4. ASSUME NEW status \in ErasureStatus
      PROVE  /\ DOMAIN Decided(k, status) = DOMAIN ret
             /\ Decided(k, status).erased = ret.erased
             /\ Decided(k, status).requests \in Seq(ErasureRequest)
             /\ Decided(k, status).requests[k].status = status
  <2>. DEFINE q == [ret.requests EXCEPT ![k] = [ret.requests[k] EXCEPT !.status = status]]
  <2>1. [ret.requests[k] EXCEPT !.status = status] \in ErasureRequest
        /\ [ret.requests[k] EXCEPT !.status = status].status = status
    BY <1>1 DEF ErasureRequest
  <2>2. q \in Seq(ErasureRequest) /\ q[k].status = status BY <1>1, <2>1
  <2>3. Decided(k, status) = [ret EXCEPT !.requests = q] BY DEF Decided
  <2>. HIDE DEF q
  <2>. QED BY <2>2, <2>3 DEF RequestsFiled
<1>5. CASE approve
  <2>1. /\ ~Operational(i) /\ ~Protected(i)
        /\ ret' = [Decided(k, "Fulfilled") EXCEPT !.erased = Put(@, i, EventAt(i).metadata)]
    BY <1>2, <1>5 DEF process_erasure_request, ApproveErasure
  <2>2. "Fulfilled" \in ErasureStatus BY DEF ErasureStatus
  <2>3. PICK d : d = Decided(k, "Fulfilled") OBVIOUS
  <2>4. /\ DOMAIN d = DOMAIN ret /\ d.erased = ret.erased
        /\ d.requests \in Seq(ErasureRequest) /\ d.requests[k].status = "Fulfilled"
    BY <2>2, <2>3, <1>4
  <2>5. ret' = [d EXCEPT !.erased = Put(ret.erased, i, EventAt(i).metadata)]
    BY <2>1, <2>3, <2>4
  <2>6. /\ DOMAIN ret' = DOMAIN ret /\ ret'.requests = d.requests
        /\ ret'.erased = Put(ret.erased, i, EventAt(i).metadata)
    BY <2>4, <2>5 DEF RequestsFiled
  <2>7. Sanctioned(i) BY <2>1, <2>4, <2>6, <1>3 DEF Sanctioned, Protected
  <2>8. RecordMade(i) BY <2>6, <2>7 DEF RecordMade, Put
  <2>9. \A j \in DOMAIN ret'.erased : j # i => RecordKept(j) BY <2>6 DEF RecordKept, Put
  <2>. QED BY <2>4, <2>6, <2>8, <2>9 DEF RetentionMove
<1>6. CASE ~approve
  <2>1. ret' = Decided(k, "Denied") BY <1>6 DEF process_erasure_request, DenyErasure
  <2>2. "Denied" \in ErasureStatus BY DEF ErasureStatus
  <2>3. PICK d : d = Decided(k, "Denied") OBVIOUS
  <2>4. DOMAIN d = DOMAIN ret /\ d.erased = ret.erased /\ d.requests \in Seq(ErasureRequest)
    BY <2>2, <2>3, <1>4
  <2>. QED BY <2>1, <2>3, <2>4 DEF RetentionMove, RecordKept
<1>. QED BY <1>5, <1>6

(* The sweep writes the records of the events it finds erasable.             *)
LEMMA SweepMove ==
    ASSUME StoreInv, RequestsFiled, NEW c \in Address, NEW start \in DOMAIN order,
           NEW batch, NEW hs, run_retention_sweep(c, start, batch, hs)
    PROVE  RetentionMove
<1>. DEFINE E == {i \in start..(start + batch - 1) : i < rs.total /\ Erasable(i)}
            records == [i \in DOMAIN ret.erased \cup E |->
                           IF i \in E THEN EventAt(i).metadata ELSE ret.erased[i]]
<1>1. ret' = [ret EXCEPT !.erased = records] BY DEF run_retention_sweep
<1>2. \A i \in E : i \in DOMAIN order /\ Erasable(i)
  BY DEF StoreInv, StoreTypeOK, StoreConsistent
<1>. HIDE DEF E
<1>3. DOMAIN ret' = DOMAIN ret /\ ret'.requests = ret.requests /\ ret'.erased = records
  <2>. HIDE DEF records
  <2>. QED BY <1>1 DEF RequestsFiled
<1>4. ASSUME NEW i \in DOMAIN ret'.erased PROVE RecordKept(i) \/ RecordMade(i)
  <2>1. CASE i \in E
    <3>1. i \in DOMAIN order /\ Erasable(i) /\ ret'.erased[i] = EventAt(i).metadata
      BY <2>1, <1>2, <1>3
    <3>2. Sanctioned(i) BY <3>1 DEF Sanctioned, Erasable, Protected
    <3>. QED BY <3>1, <3>2 DEF RecordMade
  <2>2. CASE i \notin E BY <2>2, <1>3, <1>4 DEF RecordKept
  <2>. QED BY <2>1, <2>2
<1>. QED BY <1>3, <1>4 DEF RetentionMove, RequestsFiled

(* Every retention call is such a move.                                      *)
LEMMA RetentionMoves ==
    ASSUME StoreInv, RequestsFiled, RetentionCalls
    PROVE  RetentionMove
<1>1. ASSUME NEW i \in DOMAIN order, request_erasure(i) PROVE RetentionMove
  <2>. DEFINE r == [index |-> i, status |-> "Pending"]
  <2>1. r \in ErasureRequest BY DEF ErasureRequest, ErasureStatus
  <2>2. ret' = [ret EXCEPT !.requests = Append(ret.requests, r)] BY <1>1 DEF request_erasure
  <2>. HIDE DEF r
  <2>3. ret.requests \in Seq(ErasureRequest) BY DEF RequestsFiled
  <2>4. Append(ret.requests, r) \in Seq(ErasureRequest) BY <2>1, <2>3, AppendProperties
  <2>5. /\ DOMAIN ret' = DOMAIN ret /\ ret'.requests = Append(ret.requests, r)
        /\ ret'.erased = ret.erased
    BY <2>2 DEF RequestsFiled
  <2>. QED BY <2>4, <2>5 DEF RetentionMove, RecordKept
<1>2. ASSUME NEW c \in Address, NEW cat, NEW d, set_retention_policy(c, cat, d)
      PROVE  RetentionMove
  BY <1>2, PolicyMove DEF set_retention_policy, RequestsFiled
<1>3. ASSUME NEW c \in Address, NEW d, set_default_retention_days(c, d) PROVE RetentionMove
  BY <1>3, PolicyMove DEF set_default_retention_days, RequestsFiled
<1>4. ASSUME NEW c \in Address, NEW i,
             place_legal_hold(c, i) \/ release_legal_hold(c, i)
             \/ revoke_compliance_exception(c, i)
      PROVE  RetentionMove
  BY <1>4, PolicyMove DEF place_legal_hold, release_legal_hold,
                          revoke_compliance_exception, RequestsFiled
<1>5. ASSUME NEW c \in Address, NEW i, NEW e, grant_compliance_exception(c, i, e)
      PROVE  RetentionMove
  BY <1>5, PolicyMove DEF grant_compliance_exception, RequestsFiled
<1>6. ASSUME NEW c \in Address, NEW a, add_ops_recorder(c, a) \/ remove_ops_recorder(c, a)
      PROVE  RetentionMove
  BY <1>6, PolicyMove DEF add_ops_recorder, remove_ops_recorder, RequestsFiled
<1>7. ASSUME NEW c \in Address, NEW t, NEW m, NEW h, log_operational_action(c, t, m, h)
      PROVE  RetentionMove
  BY <1>7, PolicyMove DEF log_operational_action
<1>. QED BY <1>1, <1>2, <1>3, <1>4, <1>5, <1>6, <1>7, DecisionMove, SweepMove
         DEF RetentionCalls

-----------------------------------------------------------------------------
(* Every step of the managed contract is a step of the contract as far as    *)
(* the store is concerned, or a sweep.                                       *)

Redaction == AmendFrame /\ \E E : Redacts(E)

(* The retention calls: approved erasures are updates, operational actions   *)
(* are logged events, a sweep that finds nothing to rewrite is quiet.        *)
LEMMA RetentionStep ==
    ASSUME StoreInv, RequestsFiled, RetentionCalls
    PROVE  Step \/ Redaction
<1>. USE DEF logVars, extraVars, histVars, govVars
<1>1. ASSUME UNCHANGED vars PROVE Step BY <1>1, NextIsStep
<1>2. ASSUME NEW c \in Address, NEW k \in DOMAIN ret.requests, NEW approve \in BOOLEAN,
             NEW h \in Handle, process_erasure_request(c, k, approve, h)
      PROVE  Step
  <2>1. CASE approve
    <3>1. ret.requests[k] \in ErasureRequest BY DEF RequestsFiled
    <3>2. PICK i \in DOMAIN order : i = ret.requests[k].index BY <3>1 DEF ErasureRequest
    <3>3. update_event(c, i, NoMetadata, h)
      BY <1>2, <2>1, <3>2 DEF process_erasure_request, ApproveErasure
    <3>4. AmendFrame BY <3>3 DEF update_event, AmendFrame, StoreInv, StoreTypeOK
    <3>5. UpdateEffect(c, i, NoMetadata, h) BY <3>3 DEF update_event
    <3>6. NoMetadata \in Metadata BY RetentionAssumption
    <3>. QED BY <3>4, <3>5, <3>6, UpdateStep
  <2>2. CASE ~approve
    <3>1. UNCHANGED vars BY <1>2, <2>2 DEF process_erasure_request, DenyErasure
    <3>. QED BY <3>1, <1>1
  <2>. QED BY <2>1, <2>2
<1>3. ASSUME NEW c \in Address, NEW start \in DOMAIN order, NEW batch \in 1..rs.total,
             NEW hs \in [DOMAIN order -> Handle], run_retention_sweep(c, start, batch, hs)
      PROVE  Step \/ Redaction
  <2>. DEFINE E == {i \in start..(start + batch - 1) : i < rs.total /\ Erasable(i)}
              changed == {i \in E : RedactedId(i, hs) # order[i]}
  <2>1. AmendFrame BY <1>3 DEF run_retention_sweep, AmendFrame, StoreInv, StoreTypeOK
  <2>2. IF changed = {} THEN UNCHANGED <<order, data, versions>> ELSE Sweep(c, changed, hs)
    BY <1>3 DEF run_retention_sweep
  <2>3. changed \in SUBSET DOMAIN order BY DEF StoreInv, StoreTypeOK, StoreConsistent
  <2>. HIDE DEF changed
  <2>4. CASE changed = {}
    BY <2>1, <2>2, <2>4 DEF Step, Quiet, AmendFrame, StoreInv, StoreTypeOK, WithinGlobalMax
  <2>5. CASE changed # {}
    <3>1. Sweep(c, changed, hs) BY <2>2, <2>5
    <3>2. Redacts(changed) BY <2>3, <2>5, <3>1, SweepRedacts
    <3>. QED BY <2>1, <3>2 DEF Redaction
  <2>. QED BY <2>4, <2>5
<1>4. ASSUME NEW c \in Address, NEW t \in EventType, NEW m \in Metadata, NEW h \in Handle,
             log_operational_action(c, t, m, h)
      PROVE  Step
  <2>1. \E key : log_event_with_hierarchy(c, t, m, "operational", TRUE, h, key)
    BY <1>4 DEF log_operational_action, log_event
  <2>2. UNCHANGED <<now, versions, snaps, proposals>>
    BY <1>4 DEF log_operational_action, log_event
  <2>3. "operational" \in Category BY RetentionAssumption
  <2>. QED BY <2>1, <2>2, <2>3, LogStep
<1>5. \/ UNCHANGED vars
      \/ \E c \in Address, k \in DOMAIN ret.requests, approve \in BOOLEAN, h \in Handle :
            process_erasure_request(c, k, approve, h)
      \/ \E c \in Address, start \in DOMAIN order, batch \in 1..rs.total,
            hs \in [DOMAIN order -> Handle] : run_retention_sweep(c, start, batch, hs)
      \/ \E c \in Address, t \in EventType, m \in Metadata, h \in Handle :
            log_operational_action(c, t, m, h)
  <2>. USE DEF request_erasure, set_retention_policy, set_default_retention_days,
               place_legal_hold, release_legal_hold, grant_compliance_exception,
               revoke_compliance_exception, add_ops_recorder, remove_ops_recorder
  <2>. QED BY Zenon DEF RetentionCalls
<1>. QED BY <1>1, <1>2, <1>3, <1>4, <1>5

(* Archiving and the registry never touch the contract's own state.          *)
LEMMA OtherCallsAreStill ==
    ASSUME ArchiveCalls \/ RegistryCalls
    PROVE  UNCHANGED vars
<1>1. CASE ArchiveCalls
  BY <1>1, Zenon DEF ArchiveCalls, set_archive_config, archive_events, purge_archived_events
<1>2. CASE RegistryCalls
  BY <1>2, Zenon DEF RegistryCalls, tag_event_version, set_event_ttl, cleanup_expired_events,
       register_schema, migrate_event_metadata, register_webhook, unregister_webhook,
       get_event, EvictPersistent
<1>. QED BY <1>1, <1>2

(* All steps.                                                                *)
LEMMA ManagedStep ==
    ASSUME StoreInv, RequestsFiled, [ManagedNext]_managedVars
    PROVE  Step \/ Redaction
<1>1. CASE CoreCalls
  <2>1. Next BY <1>1 DEF CoreCalls, Next
  <2>. QED BY <2>1, NextIsStep
<1>2. CASE ArchiveCalls \/ RegistryCalls BY <1>2, OtherCallsAreStill, NextIsStep
<1>3. CASE RetentionCalls BY <1>3, RetentionStep
<1>4. CASE UNCHANGED managedVars
  <2>1. UNCHANGED vars BY <1>4 DEF managedVars
  <2>. QED BY <2>1, NextIsStep
<1>. QED BY <1>1, <1>2, <1>3, <1>4 DEF ManagedNext

(* No step drops an event or a version, or changes what a version says.      *)
HistoryKept(i) ==
    /\ i \in DOMAIN order'
    /\ Len(get_event_history(i)) <= Len(get_event_history(i)')
    /\ \A v \in 1..Len(get_event_history(i)) :
          get_event_history(i)'[v].data.metadata = get_event_history(i)[v].data.metadata

(* An event that keeps its history, recorded or implied.                     *)
LEMMA SameHistory ==
    ASSUME StoreInv, NEW i \in DOMAIN order, i \in DOMAIN order',
           i \in DOMAIN versions <=> i \in DOMAIN versions',
           i \in DOMAIN versions => versions'[i] = versions[i],
           EventAt(i)'.metadata = EventAt(i).metadata
    PROVE  HistoryKept(i)
<1>1. Len(get_event_history(i)) \in Nat BY HistoryType
<1>2. CASE i \in DOMAIN versions
  BY <1>1, <1>2 DEF HistoryKept, get_event_history
<1>3. CASE i \notin DOMAIN versions
  <2>1. PICK p : p = [data |-> EventAt(i), updated_at |-> EventAt(i).timestamp,
                      updated_by |-> EventAt(i).submitter] OBVIOUS
  <2>2. PICK q : q = [data |-> EventAt(i)', updated_at |-> EventAt(i)'.timestamp,
                      updated_by |-> EventAt(i)'.submitter] OBVIOUS
  <2>3. p.data.metadata = q.data.metadata BY <2>1, <2>2
  <2>4. get_event_history(i) = <<p>> /\ get_event_history(i)' = <<q>>
    BY <1>3, <2>1, <2>2 DEF get_event_history
  <2>. QED BY <2>3, <2>4 DEF HistoryKept
<1>. QED BY <1>2, <1>3

(* Every step keeps every history.                                           *)
LEMMA StepKeepsHistory ==
    ASSUME StoreInv, Step \/ Redaction, NEW i \in DOMAIN order
    PROVE  HistoryKept(i)
<1>0. i \in 0..(rs.total - 1) /\ rs.total \in Nat /\ Len(get_event_history(i)) \in Nat
  BY HistoryType DEF StoreInv, StoreConsistent, StoreTypeOK
<1>1. CASE Quiet
  <2>1. i \in DOMAIN order' /\ versions' = versions /\ EventAt(i)' = EventAt(i)
    BY <1>1 DEF Quiet, EventAt
  <2>. QED BY <2>1, SameHistory
<1>2. CASE \E n \in Nat : Grows(n)
  <2>1. i \in DOMAIN order' /\ versions' = versions /\ EventAt(i)' = EventAt(i)
    BY <1>2, <1>0 DEF Grows, OldKept, EventAt
  <2>. QED BY <2>1, SameHistory
<1>3. CASE Amendment
  <2>1. PICK c, k, e, h : Amends(c, k, e, h) BY <1>3 DEF Amendment
  <2>2. PICK new : new = Append(get_event_history(k), VersionOf(c, Rehashed(e, IdOf(e, k, h), k)))
    OBVIOUS
  <2>3. /\ versions' = Put(versions, k, new)
        /\ Len(new) = Len(get_event_history(k)) + 1
        /\ \A v \in 1..Len(get_event_history(k)) : new[v] = get_event_history(k)[v]
    BY <2>1, <2>2, AmendedHistory
  <2>4. /\ DOMAIN order' = DOMAIN order
        /\ i # k => EventAt(i)'.metadata = EventAt(i).metadata
    BY <2>1, AmendedLog
  <2>5. CASE i # k
    <3>1. /\ i \in DOMAIN versions <=> i \in DOMAIN versions'
          /\ i \in DOMAIN versions => versions'[i] = versions[i]
      BY <2>3, <2>5 DEF Put
    <3>. QED BY <2>4, <2>5, <3>1, SameHistory
  <2>6. CASE i = k
    <3>1. get_event_history(i)' = new BY <2>3, <2>6 DEF get_event_history, Put
    <3>. QED BY <1>0, <2>3, <2>4, <2>6, <3>1 DEF HistoryKept
  <2>. QED BY <2>5, <2>6
<1>4. CASE Redaction
  <2>1. PICK E : Redacts(E) BY <1>4 DEF Redaction
  <2>2. i \in DOMAIN order' BY <2>1 DEF Redacts
  <2>3. CASE i \notin E
    <3>1. /\ i \in DOMAIN versions <=> i \in DOMAIN versions'
          /\ i \in DOMAIN versions => versions'[i] = versions[i]
          /\ EventAt(i)'.metadata = EventAt(i).metadata
      BY <2>1, <2>3 DEF Redacts
    <3>. QED BY <2>2, <3>1, SameHistory
  <2>4. CASE i \in E
    <3>1. get_event_history(i)' = versions'[i] BY <2>1, <2>4 DEF get_event_history, Redacts
    <3>2. /\ Len(versions'[i]) = Len(get_event_history(i)) + 1
          /\ \A v \in 1..Len(get_event_history(i)) :
               versions'[i][v].data.metadata = get_event_history(i)[v].data.metadata
      BY <2>1, <2>4 DEF Redacts
    <3>. QED BY <1>0, <2>2, <3>1, <3>2 DEF HistoryKept
  <2>. QED BY <2>3, <2>4
<1>. QED BY <1>1, <1>2, <1>3, <1>4 DEF Step

(* The store invariant under both kinds of step.                             *)
LEMMA ManagedStepKeepsStore ==
    ASSUME StoreInv, Step \/ Redaction
    PROVE  StoreInv'
<1>1. CASE Quiet BY <1>1, QuietKeepsStore
<1>2. CASE \E n \in Nat : Grows(n) BY <1>2, GrowthKeepsStore
<1>3. CASE Amendment
  <2>1. AmendFrame BY <1>3 DEF Amendment
  <2>2. PICK c, i, e, h : Amends(c, i, e, h) BY <1>3 DEF Amendment
  <2>. QED BY <2>1, <2>2, AmendmentKeepsStore
<1>4. CASE Redaction BY <1>4, RedactionKeepsStore DEF Redaction
<1>. QED BY <1>1, <1>2, <1>3, <1>4 DEF Step

-----------------------------------------------------------------------------
(* Retention theorems.                                                       *)

(* What a filed request and its erasure record need to stay meaningful.      *)
ErasuresReadable ==
    \A i \in DOMAIN ret.erased :
        /\ i \in DOMAIN order
        /\ \E v \in 1..Len(get_event_history(i)) :
              get_event_history(i)[v].data.metadata = ret.erased[i]

(* The store and the requests filed against it. The requests name events of  *)
(* the log, so that approving one is an update of a stored event.            *)
ManagedInv == StoreInv /\ RequestsFiled

(* What any step does to retention state.                                    *)
LEMMA ManagedRetentionMove ==
    ASSUME ManagedInv, [ManagedNext]_managedVars
    PROVE  RetentionMove
<1>1. CASE RetentionCalls BY <1>1, RetentionMoves DEF ManagedInv
<1>2. CASE ret' = ret BY <1>2, PolicyMove DEF ManagedInv
<1>. QED BY <1>1, <1>2 DEF ManagedNext, CoreCalls, managedVars

(* Every step keeps store and requests.                                      *)
LEMMA ManagedStepKeepsInv ==
    ASSUME ManagedInv, [ManagedNext]_managedVars
    PROVE  ManagedInv' /\ (\A i \in DOMAIN order : HistoryKept(i)) /\ RetentionMove
<1>1. Step \/ Redaction BY ManagedStep DEF ManagedInv
<1>2. StoreInv' BY <1>1, ManagedStepKeepsStore DEF ManagedInv
<1>3. \A i \in DOMAIN order : HistoryKept(i) BY <1>1, StepKeepsHistory DEF ManagedInv
<1>4. RetentionMove BY ManagedRetentionMove
<1>5. RequestsFiled'
  <2>1. DOMAIN order \subseteq DOMAIN order' BY <1>3 DEF HistoryKept
  <2>2. ErasureRequest \subseteq ErasureRequest' BY <2>1 DEF ErasureRequest
  <2>3. ret'.requests \in Seq(ErasureRequest) /\ DOMAIN ret' = DOMAIN ret
    BY <1>4 DEF RetentionMove
  <2>4. ret'.requests \in Seq(ErasureRequest')
    <3>. HIDE DEF ErasureRequest
    <3>. QED BY <2>2, <2>3
  <2>. QED BY <2>3, <2>4 DEF RequestsFiled, ManagedInv
<1>. QED BY <1>2, <1>3, <1>4, <1>5 DEF ManagedInv

(* Archive, retention sweeps, erasures, the operational log and the registry *)
(* keep the event store of lib.rs well formed, chained and in time order.    *)
THEOREM ManagedInvariant == ManagedSpec => []ManagedInv
<1>1. ManagedInit => ManagedInv
  <2>1. ManagedInit => StoreInv BY InitStore DEF ManagedInit
  <2>2. ManagedInit => RequestsFiled
    BY DEF ManagedInit, RetentionInit, RequestsFiled
  <2>. QED BY <2>1, <2>2 DEF ManagedInv
<1>2. ManagedInv /\ [ManagedNext]_managedVars => ManagedInv' BY ManagedStepKeepsInv
<1>. QED BY <1>1, <1>2, PTL DEF ManagedSpec

(* verify_integrity stays true when sweeps redact many events at once: the   *)
(* chain run_retention_sweep leaves is the one update_event builds.          *)
THEOREM ManagedChainIntact == ManagedSpec => []ChainIntact
<1>1. ManagedInv => ChainIntact BY CommitmentVerifies DEF ManagedInv, StoreInv
<1>. QED BY <1>1, ManagedInvariant, PTL

(* No erasure is recorded of an event that is on hold, excepted or           *)
(* operational at that moment, and each follows a pending request or an      *)
(* ended retention period.                                                   *)
THEOREM ErasuresAreSanctioned == ManagedSpec => ErasuresSanctioned
<1>. DEFINE A == \A i \in DOMAIN ret'.erased :
                   (i \notin DOMAIN ret.erased \/ ret'.erased[i] # ret.erased[i]) =>
                     Sanctioned(i)
<1>1. RetentionMove => A BY DEF RetentionMove, RecordKept, RecordMade
<1>2. ManagedInv /\ [ManagedNext]_managedVars => [A]_<<vars, ret>>
  BY <1>1, ManagedRetentionMove
<1>3. [][A]_<<vars, ret>> => ErasuresSanctioned
  BY PTL DEF ErasuresSanctioned, Sanctioned
<1>. QED BY <1>2, <1>3, ManagedInvariant, PTL DEF ManagedSpec

(* Every erasure record stays readable.                                      *)
LEMMA StepKeepsErasures ==
    ASSUME ManagedInv, ErasuresReadable, [ManagedNext]_managedVars
    PROVE  ErasuresReadable'
<1>1. (\A i \in DOMAIN order : HistoryKept(i)) /\ RetentionMove /\ ManagedInv'
  BY ManagedStepKeepsInv
<1>2. ASSUME NEW i \in DOMAIN ret'.erased
      PROVE  /\ i \in DOMAIN order'
             /\ \E v \in 1..Len(get_event_history(i)') :
                   get_event_history(i)'[v].data.metadata = ret'.erased[i]
  <2>1. /\ i \in DOMAIN order
        /\ \E v \in 1..Len(get_event_history(i)) :
              get_event_history(i)[v].data.metadata = ret'.erased[i]
    <3>1. CASE RecordKept(i) BY <3>1 DEF RecordKept, ErasuresReadable
    <3>2. CASE RecordMade(i)
      <4>1. i \in DOMAIN order /\ ret'.erased[i] = EventAt(i).metadata BY <3>2 DEF RecordMade
      <4>2. PICK g : g = get_event_history(i) OBVIOUS
      <4>3. Len(g) \in Nat /\ Len(g) > 0 /\ g[Len(g)].data.metadata = EventAt(i).metadata
        BY <4>1, <4>2, HistoryType DEF ManagedInv
      <4>4. Len(g) \in 1..Len(g) BY <4>3
      <4>. QED BY <4>1, <4>2, <4>3, <4>4
    <3>. QED BY <3>1, <3>2, <1>1 DEF RetentionMove
  <2>2. HistoryKept(i) BY <2>1, <1>1
  <2>3. PICK v \in 1..Len(get_event_history(i)) :
          get_event_history(i)[v].data.metadata = ret'.erased[i]
    BY <2>1
  <2>4. i \in DOMAIN order' BY <2>2 DEF HistoryKept
  <2>5. Len(get_event_history(i)) \in Nat BY <2>1, HistoryType DEF ManagedInv
  <2>6. v \in 1..Len(get_event_history(i)') BY <2>2, <2>5 DEF HistoryKept
  <2>. QED BY <2>2, <2>3, <2>4, <2>6 DEF HistoryKept
<1>. QED BY <1>2 DEF ErasuresReadable

(* The digest of an erasure record is that of a version auditors can read,   *)
(* whatever amendments, sweeps and requests followed, and the compliance     *)
(* report announces exactly what the sweep erases.                           *)
THEOREM ErasuresStayVerifiable == ManagedSpec => []ErasureVerifiable
<1>1. ManagedInit => ErasuresReadable
  BY DEF ManagedInit, RetentionInit, ErasuresReadable, EmptyMap
<1>2. ManagedInv /\ ErasuresReadable /\ [ManagedNext]_managedVars => ErasuresReadable'
  BY StepKeepsErasures
<1>3. ASSUME ManagedInv, ErasuresReadable PROVE ErasureVerifiable
  <2>1. ASSUME NEW i \in DOMAIN ret.erased
        PROVE  \E v \in DOMAIN get_event_history(i) :
                 get_event_history(i)[v].data.metadata = ret.erased[i]
    <3>1. i \in DOMAIN order BY <1>3 DEF ErasuresReadable
    <3>2. get_event_history(i) \in Seq(Version) BY <3>1, <1>3, HistoryType DEF ManagedInv
    <3>3. DOMAIN get_event_history(i) = 1..Len(get_event_history(i)) BY <3>2
    <3>. QED BY <3>3, <1>3 DEF ErasuresReadable
  <2>2. \A i \in DOMAIN order :
           verify_retention_compliance(i) = "overdue_erasable" <=> Erasable(i)
    BY DEF verify_retention_compliance, Erasable, Protected
  <2>. QED BY <2>1, <2>2 DEF ErasureVerifiable
<1>. QED BY <1>1, <1>2, <1>3, ManagedInvariant, PTL DEF ManagedSpec

-----------------------------------------------------------------------------
(* Version tags.                                                             *)

(* A tag names a version of an event of the log.                             *)
TagsHeld ==
    \A iv \in DOMAIN tags :
        \E i \in DOMAIN order, v \in Nat : iv = <<i, v>> /\ v < Len(get_event_history(i))

(* Tags are only added, for versions that exist.                             *)
LEMMA TagMove ==
    ASSUME ManagedInv, [ManagedNext]_managedVars, NEW iv \in DOMAIN tags'
    PROVE  \/ iv \in DOMAIN tags
           \/ \E i \in DOMAIN order, v \in Nat : iv = <<i, v>> /\ v < Len(get_event_history(i))
<1>1. CASE tags' = tags BY <1>1
<1>2. ASSUME NEW c \in Address, NEW i \in DOMAIN order, NEW v \in 0..(MaxVersions - 1),
             NEW tag \in Tag, tag_event_version(c, i, v, tag)
      PROVE  \/ iv \in DOMAIN tags
             \/ \E j \in DOMAIN order, w \in Nat : iv = <<j, w>> /\ w < Len(get_event_history(j))
  <2>1. tags' = Put(tags, <<i, v>>, tag) /\ v < Len(get_event_history(i)) BY <1>2 DEF tag_event_version
  <2>2. iv \in DOMAIN tags \/ iv = <<i, v>> BY <2>1 DEF Put
  <2>3. v \in Nat BY BoundsAssumption
  <2>. QED BY <2>1, <2>2, <2>3
<1>3. RegistryCalls => \/ tags' = tags
                       \/ \E c \in Address, i \in DOMAIN order, v \in 0..(MaxVersions - 1),
                             tag \in Tag : tag_event_version(c, i, v, tag)
  BY Zenon DEF RegistryCalls, set_event_ttl, cleanup_expired_events, register_schema,
       migrate_event_metadata, register_webhook, unregister_webhook, get_event, EvictPersistent
<1>4. RegistryCalls \/ tags' = tags
  BY DEF ManagedNext, CoreCalls, managedVars, registryVars
<1>. QED BY <1>1, <1>2, <1>3, <1>4

(* No step takes the version from under a tag.                               *)
LEMMA StepKeepsTags ==
    ASSUME ManagedInv, TagsHeld, [ManagedNext]_managedVars
    PROVE  TagsHeld'
<1>1. \A i \in DOMAIN order : HistoryKept(i) BY ManagedStepKeepsInv
<1>2. ASSUME NEW iv \in DOMAIN tags'
      PROVE  \E i \in DOMAIN order', v \in Nat : iv = <<i, v>> /\ v < Len(get_event_history(i)')
  <2>1. PICK i \in DOMAIN order, v \in Nat : iv = <<i, v>> /\ v < Len(get_event_history(i))
    BY <1>2, TagMove DEF TagsHeld
  <2>2. Len(get_event_history(i)) \in Nat BY HistoryType DEF ManagedInv
  <2>3. i \in DOMAIN order' /\ Len(get_event_history(i)) <= Len(get_event_history(i)')
    BY <1>1 DEF HistoryKept
  <2>4. v < Len(get_event_history(i)') BY <2>1, <2>2, <2>3
  <2>. QED BY <2>1, <2>3, <2>4
<1>. QED BY <1>2 DEF TagsHeld

(* Two versions of an event differ in their metadata at most.                *)
LEMMA DiffsAreMetadata ==
    ASSUME StoreInv, NEW i \in DOMAIN order,
           NEW v \in 0..(Len(get_event_history(i)) - 1),
           NEW w \in 0..(Len(get_event_history(i)) - 1)
    PROVE  get_event_diff(i, v, w) \subseteq {"metadata"}
<1>1. PICK g : g = get_event_history(i) OBVIOUS
<1>2. Len(g) \in Nat /\ \A x \in 1..Len(g) : Identity(g[x].data) = Identity(EventAt(i))
  BY <1>1, HistoryType
<1>3. v + 1 \in 1..Len(g) /\ w + 1 \in 1..Len(g) BY <1>1, <1>2
<1>4. Identity(g[v + 1].data) = Identity(g[w + 1].data) BY <1>2, <1>3
<1>5. PICK from : from = g[v + 1].data OBVIOUS
<1>6. PICK to : to = g[w + 1].data OBVIOUS
<1>7. /\ from.timestamp = to.timestamp /\ from.event_type = to.event_type
      /\ from.category = to.category /\ from.submitter = to.submitter
  BY <1>4, <1>5, <1>6 DEF Identity
<1>8. get_event_diff(i, v, w) = {f \in Compared : from[f] # to[f]}
  BY <1>1, <1>5, <1>6 DEF get_event_diff
<1>. QED BY <1>7, <1>8 DEF Compared

(* A tag of tag_event_version always leads to a version that can be read,    *)
(* and get_event_diff shows changes of metadata only.                        *)
THEOREM TagsAreReadable == ManagedSpec => []TagsStayReadable
<1>1. ManagedInit => TagsHeld BY DEF ManagedInit, RegistryInit, TagsHeld, EmptyMap
<1>2. ManagedInv /\ TagsHeld /\ [ManagedNext]_managedVars => TagsHeld' BY StepKeepsTags
<1>3. ASSUME ManagedInv, TagsHeld PROVE TagsStayReadable
  <2>1. ASSUME NEW iv \in DOMAIN tags
        PROVE  iv[1] < rs.total /\ iv[2] < Len(get_event_history(iv[1]))
    <3>1. PICK i \in DOMAIN order, v \in Nat : iv = <<i, v>> /\ v < Len(get_event_history(i))
      BY <1>3 DEF TagsHeld
    <3>2. i < rs.total BY <1>3 DEF ManagedInv, StoreInv, StoreTypeOK, StoreConsistent
    <3>3. iv[1] = i /\ iv[2] = v BY <3>1
    <3>. QED BY <3>1, <3>2, <3>3
  <2>2. \A i \in DOMAIN order : \A v, w \in 0..(Len(get_event_history(i)) - 1) :
           get_event_diff(i, v, w) \subseteq {"metadata"}
    BY <1>3, DiffsAreMetadata DEF ManagedInv
  <2>. QED BY <2>1, <2>2 DEF TagsStayReadable
<1>. QED BY <1>1, <1>2, <1>3, ManagedInvariant, PTL DEF ManagedSpec

-----------------------------------------------------------------------------
(* The schema registry.                                                      *)

Ascending(vs) == \A j, k \in DOMAIN vs : j < k => vs[j] < vs[k]

(* insert_u32_sorted on an ascending list: it stays ascending and gains      *)
(* exactly the new version.                                                  *)
LEMMA InsertedVersion ==
    ASSUME NEW S \in SUBSET Nat, NEW vs \in Seq(S), Ascending(vs), NEW v \in S
    PROVE  LET r == InsertVersion(vs, v)
           IN  /\ r \in Seq(S) /\ Ascending(r)
               /\ {r[k] : k \in DOMAIN r} = {vs[k] : k \in DOMAIN vs} \cup {v}
<1>. DEFINE r == InsertVersion(vs, v)
<1>0. DOMAIN vs = 1..Len(vs) /\ Len(vs) \in Nat /\ v \in Nat
      /\ \A k \in 1..Len(vs) : vs[k] \in S /\ vs[k] \in Nat
  <2>1. DOMAIN vs = 1..Len(vs) /\ Len(vs) \in Nat /\ \A k \in 1..Len(vs) : vs[k] \in S
    OBVIOUS
  <2>2. \A w \in S : w \in Nat OBVIOUS
  <2>. QED BY <2>1, <2>2
<1>1. CASE \E k \in DOMAIN vs : vs[k] = v
  <2>1. r = vs BY <1>1 DEF InsertVersion
  <2>. QED BY <2>1, <1>1
<1>2. CASE ~\E k \in DOMAIN vs : vs[k] = v
  <2>. DEFINE T == {k \in 1..(Len(vs) + 1) : k = Len(vs) + 1 \/ vs[k] > v}
              below == {k \in DOMAIN vs : vs[k] <= v}
  <2>1. T \in SUBSET Nat /\ Len(vs) + 1 \in T BY <1>0
  <2>2. PICK x \in T : \A y \in T : x <= y
    <3>. HIDE DEF T
    <3>. QED BY <2>1, LeastNumber
  <2>3. PICK n \in Nat : n = x - 1 BY <1>0
  <2>4. /\ n <= Len(vs) /\ x = n + 1 /\ x \in 1..(Len(vs) + 1)
        /\ x = Len(vs) + 1 \/ vs[x] > v
    BY <1>0, <2>2, <2>3
  <2>5. \A k \in 1..n : vs[k] < v
    <3>1. ASSUME NEW k \in 1..n PROVE vs[k] < v
      <4>1. k \in DOMAIN vs /\ k \in Nat /\ ~(x <= k) BY <1>0, <2>4
      <4>2. k \notin T BY <4>1, <2>2
      <4>3. ~(vs[k] > v) /\ vs[k] # v BY <4>1, <4>2, <1>0, <1>2
      <4>. QED BY <4>1, <4>3, <1>0
    <3>. QED BY <3>1
  <2>6. \A k \in (n + 1)..Len(vs) : vs[k] > v
    <3>1. ASSUME NEW k \in (n + 1)..Len(vs) PROVE vs[k] > v
      <4>1. x \in DOMAIN vs /\ k \in DOMAIN vs /\ x <= k /\ vs[x] > v BY <1>0, <2>4
      <4>2. k = x \/ vs[x] < vs[k] BY <4>1, <1>0 DEF Ascending
      <4>. QED BY <4>1, <4>2, <1>0
    <3>. QED BY <3>1
  <2>7. below = 1..n
    <3>1. \A k \in DOMAIN vs : k \in 1..n \/ k \in (n + 1)..Len(vs) BY <1>0, <2>4
    <3>2. \A k \in 1..n : k \in DOMAIN vs BY <1>0, <2>4
    <3>3. \A k \in DOMAIN vs : k \in 1..n => vs[k] <= v BY <2>5, <1>0
    <3>4. \A k \in DOMAIN vs : k \in (n + 1)..Len(vs) => ~(vs[k] <= v) BY <2>6, <1>0
    <3>. QED BY <3>1, <3>2, <3>3, <3>4
  <2>8. Cardinality(below) = n
    <3>1. Cardinality(1..n) = IF 1 > n THEN 0 ELSE n - 1 + 1 BY FS_Interval
    <3>2. Cardinality(1..n) = n BY <3>1
    <3>. QED BY <2>7, <3>2
  <2>. DEFINE a == SubSeq(vs, 1, n)
              b == SubSeq(vs, n + 1, Len(vs))
              ab == (a \o <<v>>) \o b
  <2>9. r = ab
    <3>1. r = SubSeq(vs, 1, Cardinality(below)) \o <<v>>
                \o SubSeq(vs, Cardinality(below) + 1, Len(vs))
      BY <1>2 DEF InsertVersion
    <3>. HIDE DEF below
    <3>. QED BY <2>8, <3>1
  <2>10. a \in Seq(S) /\ Len(a) = n /\ \A k \in 1..n : a[k] = vs[k]
    <3>1. \A k \in 1..n : vs[k] \in S BY <1>0, <2>4
    <3>2. /\ a \in Seq(S) /\ Len(a) = IF 1 <= n THEN n - 1 + 1 ELSE 0
          /\ \A k \in 1..(n - 1 + 1) : a[k] = vs[1 + k - 1]
      BY <3>1, SubSeqProperties
    <3>3. Len(a) = n BY <3>2
    <3>4. \A k \in 1..n : k \in 1..(n - 1 + 1) /\ 1 + k - 1 = k OBVIOUS
    <3>. QED BY <3>2, <3>3, <3>4
  <2>11. b \in Seq(S) /\ Len(b) = Len(vs) - n /\ \A k \in 1..(Len(vs) - n) : b[k] = vs[n + k]
    <3>1. \A k \in (n + 1)..Len(vs) : vs[k] \in S BY <1>0
    <3>2. /\ b \in Seq(S)
          /\ Len(b) = IF n + 1 <= Len(vs) THEN Len(vs) - (n + 1) + 1 ELSE 0
          /\ \A k \in 1..(Len(vs) - (n + 1) + 1) : b[k] = vs[(n + 1) + k - 1]
      BY <1>0, <3>1, SubSeqProperties
    <3>3. Len(b) = Len(vs) - n
      <4>1. CASE n + 1 <= Len(vs) BY <4>1, <3>2, <1>0
      <4>2. CASE ~(n + 1 <= Len(vs))
        <5>1. Len(b) = 0 BY <4>2, <3>2
        <5>2. n <= Len(vs) /\ Len(vs) \in Nat BY <1>0, <2>4
        <5>. HIDE DEF T, below, a, b
        <5>3. n = Len(vs) BY <4>2, <5>2
        <5>. QED BY <5>1, <5>2, <5>3
      <4>. QED BY <4>1, <4>2
    <3>4. \A k \in 1..(Len(vs) - n) : k \in 1..(Len(vs) - (n + 1) + 1) /\ (n + 1) + k - 1 = n + k
      BY <1>0
    <3>. QED BY <3>2, <3>3, <3>4
  <2>. HIDE DEF a, b, T, below
  <2>12. <<v>> \in Seq(S) /\ Len(<<v>>) = 1 /\ <<v>>[1] = v OBVIOUS
  <2>13. /\ a \o <<v>> \in Seq(S) /\ Len(a \o <<v>>) = n + 1
         /\ \A k \in 1..(n + 1) : (a \o <<v>>)[k] = IF k <= n THEN a[k] ELSE <<v>>[k - n]
    BY <2>10, <2>12, ConcatProperties
  <2>14. PICK av \in Seq(S) : av = a \o <<v>> BY <2>13
  <2>15. \A k \in 1..n : av[k] = vs[k] BY <2>10, <2>13, <2>14
  <2>16. av[n + 1] = v
    <3>1. n + 1 \in 1..(n + 1) /\ ~(n + 1 <= n) /\ (n + 1) - n = 1 OBVIOUS
    <3>. QED BY <3>1, <2>12, <2>13, <2>14
  <2>17. /\ av \o b \in Seq(S) /\ Len(av \o b) = (n + 1) + (Len(vs) - n)
         /\ \A k \in 1..((n + 1) + (Len(vs) - n)) :
              (av \o b)[k] = IF k <= n + 1 THEN av[k] ELSE b[k - (n + 1)]
    <3>1. /\ av \o b \in Seq(S) /\ Len(av \o b) = Len(av) + Len(b)
          /\ \A k \in 1..(Len(av) + Len(b)) :
               (av \o b)[k] = IF k <= Len(av) THEN av[k] ELSE b[k - Len(av)]
      BY <2>11, ConcatProperties
    <3>2. Len(av) = n + 1 /\ Len(b) = Len(vs) - n BY <2>11, <2>13, <2>14
    <3>. QED BY <3>1, <3>2
  <2>18. r \in Seq(S) /\ Len(r) = Len(vs) + 1 /\ DOMAIN r = 1..(Len(vs) + 1) /\ r = av \o b
    <3>1. r = av \o b BY <2>9, <2>14
    <3>. HIDE DEF r
    <3>2. r \in Seq(S) /\ Len(r) = Len(vs) + 1 BY <3>1, <1>0, <2>17
    <3>. QED BY <3>1, <3>2
  <2>. HIDE DEF r
  <2>19. /\ \A k \in 1..n : r[k] = vs[k]
         /\ r[n + 1] = v
         /\ \A k \in (n + 2)..(Len(vs) + 1) : r[k] = vs[k - 1]
    <3>1. \A k \in 1..(Len(vs) + 1) : r[k] = IF k <= n + 1 THEN av[k] ELSE b[k - (n + 1)]
      BY <1>0, <2>4, <2>17, <2>18
    <3>2. \A k \in 1..n : r[k] = vs[k] BY <3>1, <2>4, <2>15, <1>0, SMTT(30)
    <3>3. r[n + 1] = v BY <3>1, <2>4, <2>16, <1>0
    <3>4. ASSUME NEW k \in (n + 2)..(Len(vs) + 1) PROVE r[k] = vs[k - 1]
      <4>1. /\ k \in 1..(Len(vs) + 1) /\ ~(k <= n + 1) /\ k - (n + 1) \in 1..(Len(vs) - n)
            /\ n + (k - (n + 1)) = k - 1
        BY <1>0, <2>4
      <4>. QED BY <3>1, <4>1, <2>11
    <3>. QED BY <3>2, <3>3, <3>4
  <2>20. \A k \in 1..(Len(vs) + 1) : k \in 1..n \/ k = n + 1 \/ k \in (n + 2)..(Len(vs) + 1)
    BY <1>0, <2>4
  <2>21. ASSUME NEW j \in DOMAIN r, NEW k \in DOMAIN r, j < k PROVE r[j] < r[k]
    <3>1. CASE k \in 1..n
      <4>1. j \in 1..n /\ j \in DOMAIN vs /\ k \in DOMAIN vs BY <2>18, <2>21, <3>1, <1>0, <2>4
      <4>. QED BY <4>1, <2>19, <2>21, <3>1 DEF Ascending
    <3>2. CASE k = n + 1
      <4>1. j \in 1..n BY <2>18, <2>21, <3>2
      <4>. QED BY <4>1, <3>2, <2>5, <2>19
    <3>3. CASE k \in (n + 2)..(Len(vs) + 1)
      <4>1. r[k] = vs[k - 1] /\ k - 1 \in (n + 1)..Len(vs) /\ k - 1 \in DOMAIN vs /\ vs[k - 1] > v
        BY <3>3, <2>6, <2>19, <1>0
      <4>2. CASE j \in 1..n
        <5>1. j \in DOMAIN vs /\ j < k - 1 BY <4>2, <3>3, <1>0, <2>4
        <5>. QED BY <5>1, <4>1, <4>2, <2>19 DEF Ascending
      <4>3. CASE j = n + 1 BY <4>1, <4>3, <2>19, <1>0
      <4>4. CASE j \in (n + 2)..(Len(vs) + 1)
        <5>1. r[j] = vs[j - 1] /\ j - 1 \in DOMAIN vs /\ j - 1 < k - 1
          BY <4>4, <2>19, <2>21, <3>3, <1>0
        <5>. QED BY <5>1, <4>1 DEF Ascending
      <4>. QED BY <4>2, <4>3, <4>4, <2>18, <2>20
    <3>. QED BY <3>1, <3>2, <3>3, <2>18, <2>20
  <2>22. \A k \in DOMAIN r : r[k] = v \/ \E j \in DOMAIN vs : r[k] = vs[j]
    <3>1. \A k \in 1..n : k \in DOMAIN vs BY <1>0, <2>4
    <3>2. \A k \in (n + 2)..(Len(vs) + 1) : k - 1 \in DOMAIN vs BY <1>0, <2>4
    <3>. QED BY <3>1, <3>2, <2>18, <2>19, <2>20
  <2>23. \A j \in DOMAIN vs : \E k \in DOMAIN r : r[k] = vs[j]
    <3>1. ASSUME NEW j \in DOMAIN vs PROVE \E k \in DOMAIN r : r[k] = vs[j]
      <4>1. CASE j \in 1..n
        <5>1. j \in DOMAIN r BY <4>1, <2>18, <2>4, <1>0
        <5>. QED BY <4>1, <5>1, <2>19
      <4>2. CASE j \notin 1..n
        <5>1. j + 1 \in (n + 2)..(Len(vs) + 1) /\ j + 1 \in DOMAIN r /\ (j + 1) - 1 = j
          BY <4>2, <2>18, <2>4, <1>0
        <5>. QED BY <5>1, <2>19
      <4>. QED BY <4>1, <4>2
    <3>. QED BY <3>1
  <2>24. n + 1 \in DOMAIN r /\ r[n + 1] = v BY <2>18, <2>19, <2>4, <1>0
  <2>25. {r[k] : k \in DOMAIN r} = {vs[k] : k \in DOMAIN vs} \cup {v}
    BY <2>22, <2>23, <2>24
  <2>. QED BY <2>18, <2>21, <2>25 DEF Ascending, r
<1>. QED BY <1>1, <1>2


(* Compatibility mirrors.                                                    *)
LEMMA CompatibilityMirrors ==
    ASSUME NEW left, NEW right
    PROVE  is_backward_compatible(left, right) <=> is_forward_compatible(right, left)
<1>. DEFINE l == RequiredOf[left.definition]
            r == RequiredOf[right.definition]
            lr == contains_all(l, r)
            rl == contains_all(r, l)
<1>1. check_schema_compatibility(left, right) =
        IF left.format # right.format THEN "Breaking"
        ELSE IF l = r THEN "Full"
        ELSE IF lr /\ ~rl THEN "Backward"
        ELSE IF rl /\ ~lr THEN "Forward"
        ELSE IF left.version # right.version THEN "Breaking" ELSE "Unknown"
  BY DEF check_schema_compatibility
<1>2. check_schema_compatibility(right, left) =
        IF left.format # right.format THEN "Breaking"
        ELSE IF l = r THEN "Full"
        ELSE IF rl /\ ~lr THEN "Backward"
        ELSE IF lr /\ ~rl THEN "Forward"
        ELSE IF left.version # right.version THEN "Breaking" ELSE "Unknown"
  BY DEF check_schema_compatibility
<1>. HIDE DEF l, r, lr, rl
<1>. QED BY <1>1, <1>2 DEF is_backward_compatible, is_forward_compatible

(* The lists are ascending and name the stored schemas.                      *)
SchemasKept ==
    /\ DOMAIN schemas = {"listed", "stored", "paths"}
    /\ schemas.listed \in [EventType -> Seq(1..MaxSchema)]
    /\ \A t \in EventType :
        /\ Ascending(schemas.listed[t])
        /\ \A v \in 1..MaxSchema :
              <<t, v>> \in DOMAIN schemas.stored
                <=> v \in {schemas.listed[t][k] : k \in DOMAIN schemas.listed[t]}

(* register_schema lists what it stores.                                     *)
LEMMA RegisterKeepsSchemas ==
    ASSUME SchemasKept, NEW c, NEW t \in EventType, NEW schema \in Schema,
           register_schema(c, t, schema)
    PROVE  SchemasKept'
<1>1. PICK v \in 1..MaxSchema : v = schema.version BY DEF Schema
<1>2. PICK vs \in Seq(1..MaxSchema) : vs = schemas.listed[t] BY DEF SchemasKept
<1>3. PICK r : r = InsertVersion(vs, v) OBVIOUS
<1>4. /\ r \in Seq(1..MaxSchema) /\ Ascending(r)
      /\ {r[k] : k \in DOMAIN r} = {vs[k] : k \in DOMAIN vs} \cup {v}
  <2>1. PICK S \in SUBSET Nat : S = 1..MaxSchema
    <3>1. 1..MaxSchema \in SUBSET Nat BY RegistryAssumption
    <3>. QED BY <3>1
  <2>2. Ascending(vs) BY <1>2 DEF SchemasKept
  <2>3. vs \in Seq(S) /\ v \in S BY <2>1
  <2>4. LET q == InsertVersion(vs, v)
        IN  /\ q \in Seq(S) /\ Ascending(q)
            /\ {q[k] : k \in DOMAIN q} = {vs[k] : k \in DOMAIN vs} \cup {v}
    BY <2>2, <2>3, InsertedVersion, Zenon
  <2>. QED BY <2>1, <2>4, <1>3
<1>5. schemas' = [schemas EXCEPT !.listed = [schemas.listed EXCEPT ![t] = r],
                                 !.stored = Put(schemas.stored, <<t, v>>, schema)]
  BY <1>1, <1>2, <1>3 DEF register_schema
<1>6. /\ DOMAIN schemas' = DOMAIN schemas
      /\ schemas'.listed = [schemas.listed EXCEPT ![t] = r]
      /\ schemas'.stored = Put(schemas.stored, <<t, v>>, schema)
  BY <1>5 DEF SchemasKept
<1>7. /\ schemas'.listed \in [EventType -> Seq(1..MaxSchema)]
      /\ schemas'.listed[t] = r
      /\ \A u \in EventType : u # t => schemas'.listed[u] = schemas.listed[u]
  BY <1>4, <1>6 DEF SchemasKept
<1>8. ASSUME NEW u \in EventType
      PROVE  /\ Ascending(schemas'.listed[u])
             /\ \A w \in 1..MaxSchema :
                  <<u, w>> \in DOMAIN schemas'.stored
                    <=> w \in {schemas'.listed[u][k] : k \in DOMAIN schemas'.listed[u]}
  <2>1. CASE u # t
    <3>1. schemas'.listed[u] = schemas.listed[u] BY <2>1, <1>7
    <3>2. \A w \in 1..MaxSchema : <<u, w>> \in DOMAIN schemas'.stored
                                    <=> <<u, w>> \in DOMAIN schemas.stored
      BY <2>1, <1>6 DEF Put
    <3>. QED BY <3>1, <3>2 DEF SchemasKept
  <2>2. CASE u = t
    <3>1. \A w \in 1..MaxSchema : <<t, w>> \in DOMAIN schemas'.stored
                                    <=> <<t, w>> \in DOMAIN schemas.stored \/ w = v
      BY <1>6 DEF Put
    <3>2. \A w \in 1..MaxSchema : <<t, w>> \in DOMAIN schemas.stored
                                    <=> w \in {vs[k] : k \in DOMAIN vs}
      BY <1>2 DEF SchemasKept
    <3>3. \A w \in 1..MaxSchema : <<t, w>> \in DOMAIN schemas'.stored
                                    <=> w \in {r[k] : k \in DOMAIN r}
      BY <3>1, <3>2, <1>4
    <3>. QED BY <2>2, <3>3, <1>4, <1>7
  <2>. QED BY <2>1, <2>2
<1>. QED BY <1>6, <1>7, <1>8 DEF SchemasKept

(* Every step keeps the lists.                                               *)
LEMMA StepKeepsSchemas ==
    ASSUME SchemasKept, [ManagedNext]_managedVars
    PROVE  SchemasKept'
<1>1. CASE schemas' = schemas BY <1>1 DEF SchemasKept
<1>2. ASSUME NEW c, NEW t, NEW from, NEW to, migrate_event_metadata(c, t, from, to)
      PROVE  SchemasKept'
  <2>1. /\ DOMAIN schemas' = DOMAIN schemas /\ schemas'.listed = schemas.listed
        /\ schemas'.stored = schemas.stored
    BY <1>2 DEF migrate_event_metadata, SchemasKept
  <2>. QED BY <2>1 DEF SchemasKept
<1>3. RegistryCalls => \/ schemas' = schemas
                       \/ \E c \in Address, t \in EventType, schema \in Schema :
                             register_schema(c, t, schema)
                       \/ \E c, t, from, to : migrate_event_metadata(c, t, from, to)
  BY Zenon DEF RegistryCalls, tag_event_version, set_event_ttl, cleanup_expired_events,
       register_webhook, unregister_webhook, get_event, EvictPersistent
<1>4. RegistryCalls \/ schemas' = schemas
  BY DEF ManagedNext, CoreCalls, managedVars, registryVars
<1>. QED BY <1>1, <1>2, <1>3, <1>4, RegisterKeepsSchemas

(* The version list of every event type is ascending and names exactly the   *)
(* stored schemas, and compatibility mirrors, after any registrations.       *)
THEOREM SchemasStayListed == ManagedSpec => []SchemasListed
<1>1. ManagedInit => SchemasKept
  <2>1. SUFFICES ASSUME ManagedInit PROVE SchemasKept OBVIOUS
  <2>2. schemas = [listed |-> [t \in EventType |-> <<>>], stored |-> EmptyMap, paths |-> {}]
    BY <2>1 DEF ManagedInit, RegistryInit
  <2>3. <<>> \in Seq(1..MaxSchema) /\ DOMAIN <<>> = {} OBVIOUS
  <2>4. DOMAIN EmptyMap = {} BY DEF EmptyMap
  <2>5. \A t \in EventType : schemas.listed[t] = <<>> BY <2>2
  <2>. QED BY <2>2, <2>3, <2>4, <2>5 DEF SchemasKept, Ascending
<1>2. SchemasKept /\ [ManagedNext]_managedVars => SchemasKept' BY StepKeepsSchemas
<1>3. ASSUME SchemasKept PROVE SchemasListed
  <2>1. ASSUME NEW t \in EventType
        PROVE  {schemas.listed[t][k] : k \in DOMAIN schemas.listed[t]}
                 = {v \in 1..MaxSchema : <<t, v>> \in DOMAIN schemas.stored}
    <3>1. schemas.listed[t] \in Seq(1..MaxSchema) BY <1>3 DEF SchemasKept
    <3>2. \A k \in DOMAIN schemas.listed[t] : schemas.listed[t][k] \in 1..MaxSchema
      <4>1. ASSUME NEW S, NEW vs \in Seq(S), NEW k \in DOMAIN vs PROVE vs[k] \in S OBVIOUS
      <4>. QED BY <3>1, <4>1
    <3>. QED BY <3>2, <1>3 DEF SchemasKept
  <2>2. \A t \in EventType : \A j, k \in DOMAIN schemas.listed[t] :
           j < k => schemas.listed[t][j] < schemas.listed[t][k]
    BY <1>3 DEF SchemasKept, Ascending
  <2>. QED BY <2>1, <2>2, CompatibilityMirrors DEF SchemasListed
<1>. QED BY <1>1, <1>2, <1>3, PTL DEF ManagedSpec

-----------------------------------------------------------------------------
(* The codec of archived metadata, on payloads of any length.                *)

(* Induction from the end of an interval.                                    *)
LEMMA DownInduction ==
    ASSUME NEW m \in Nat, NEW T,
           \A i \in 1..m : (\A j \in (i + 1)..m : j \in T) => i \in T
    PROVE  \A i \in 1..m : i \in T
<1> DEFINE bad == {k \in Nat : k < m /\ m - k \notin T}
<1> SUFFICES ASSUME NEW i \in 1..m, i \notin T PROVE FALSE
    OBVIOUS
<1>1. m - i \in bad
  <2>1. m - i \in Nat /\ m - i < m /\ m - (m - i) = i
      OBVIOUS
  <2> QED BY <2>1
<1>2. PICK k \in bad : \A n \in bad : k <= n
  <2>1. bad \in SUBSET Nat /\ bad # {}
      BY <1>1
  <2> HIDE DEF bad
  <2> QED BY <2>1, LeastNumber
<1>3. m - k \in 1..m /\ m - k \notin T /\ k \in Nat
    BY <1>2
<1>4. ASSUME NEW j \in ((m - k) + 1)..m PROVE j \in T
  <2>1. m - j \in Nat /\ m - j < k /\ m - j < m /\ m - (m - j) = j
      BY <1>3
  <2>2. m - j \notin bad
    <3> HIDE DEF bad
    <3> QED BY <1>2, <1>3, <2>1
  <2> QED BY <2>1, <2>2
<1> QED BY <1>3, <1>4

(* A function may be defined from its values at larger arguments.            *)
Solves(f, m, S, B) == f \in [1..m -> S] /\ \A i \in 1..m : f[i] = B[<<i, f>>]

LEMMA BackwardsDefined ==
    ASSUME NEW m \in Nat, NEW S, NEW a \in S, NEW B \in [(1..m) \X [1..m -> S] -> S],
           \A i \in 1..m : \A f, g \in [1..m -> S] :
              (\A j \in (i + 1)..m : f[j] = g[j]) => B[<<i, f>>] = B[<<i, g>>]
    PROVE  \E f : Solves(f, m, S, B)
<1> DEFINE F == [1..m -> S]
           From(n) == \E f \in F : \A i \in n..m : f[i] = B[<<i, f>>]
           T == {n \in 1..m : From(n)}
<1>1. ASSUME NEW i \in 1..m, NEW f \in F, \A j \in (i + 1)..m : f[j] = B[<<j, f>>]
      PROVE  From(i)
  <2> DEFINE g == [f EXCEPT ![i] = B[<<i, f>>]]
  <2>1. B[<<i, f>>] \in S
    <3>1. <<i, f>> \in (1..m) \X F
        OBVIOUS
    <3> QED BY <3>1
  <2>2. g \in F /\ g[i] = B[<<i, f>>] /\ \A j \in (i + 1)..m : g[j] = f[j]
      BY <2>1
  <2> HIDE DEF g
  <2>3. ASSUME NEW j \in i..m PROVE g[j] = B[<<j, g>>]
    <3>1. B[<<j, f>>] = B[<<j, g>>]
      <4>1. \A k \in (j + 1)..m : f[k] = g[k]
          BY <2>2
      <4>2. j \in 1..m
          OBVIOUS
      <4>3. \A h \in F : (\A k \in (j + 1)..m : f[k] = h[k]) => B[<<j, f>>] = B[<<j, h>>]
          BY <4>2
      <4> HIDE DEF F
      <4> QED BY <4>1, <4>3, <2>2
    <3>2. CASE j = i
        BY <3>1, <3>2, <2>2
    <3>3. CASE j # i
      <4>1. j \in (i + 1)..m
          BY <3>3
      <4> QED BY <4>1, <3>1, <2>2, <1>1
    <3> QED BY <3>2, <3>3
  <2> QED BY <2>2, <2>3
<1>2. ASSUME NEW i \in 1..m, \A j \in (i + 1)..m : j \in T PROVE i \in T
  <2>1. CASE i = m
    <3> DEFINE f == [k \in 1..m |-> a]
    <3>1. f \in F /\ \A j \in (i + 1)..m : f[j] = B[<<j, f>>]
        BY <2>1
    <3> HIDE DEF f
    <3>2. From(i)
        BY <3>1, <1>1
    <3> QED BY <3>2
  <2>2. CASE i # m
    <3>1. i + 1 \in T
      <4> HIDE DEF T
      <4>1. i + 1 \in (i + 1)..m
          BY <2>2
      <4> QED BY <4>1, <1>2
    <3>2. PICK f \in F : \A j \in (i + 1)..m : f[j] = B[<<j, f>>]
        BY <3>1
    <3>3. From(i)
      <4> HIDE DEF F, From
      <4> QED BY <3>2, <1>1
    <3> QED BY <3>3
  <2> QED BY <2>1, <2>2
<1>3. CASE m = 0
  <2> DEFINE f == [k \in 1..m |-> a]
  <2>1. f \in F /\ 1..m = {}
      BY <1>3
  <2> QED BY <2>1 DEF Solves
<1>4. CASE m # 0
  <2>1. \A i \in 1..m : i \in T
    <3> HIDE DEF T
    <3> QED BY <1>2, DownInduction
  <2>2. 1 \in 1..m
      BY <1>4
  <2>3. From(1)
      BY <2>1, <2>2
  <2> QED BY <2>3 DEF Solves
<1> QED BY <1>3, <1>4

-----------------------------------------------------------------------------
(* The run that starts at a position.                                        *)
IsRunEnd(p, i, j) ==
    /\ j \in i..Len(p)
    /\ \A k \in i..j : p[k] = p[i]
    /\ j = Len(p) \/ p[j + 1] # p[i]

LEMMA RunEndIs ==
    ASSUME NEW S, NEW p \in Seq(S), NEW i \in 1..Len(p)
    PROVE  IsRunEnd(p, i, RunEnd(p, i))
<1> DEFINE T == {n \in 1..Len(p) : \E j \in n..Len(p) : IsRunEnd(p, n, j)}
<1>0. Len(p) \in Nat
    OBVIOUS
<1>1. ASSUME NEW n \in 1..Len(p), \A j \in (n + 1)..Len(p) : j \in T PROVE n \in T
  <2>1. CASE n = Len(p)
    <3>1. IsRunEnd(p, n, n)
        BY <2>1, <1>0 DEF IsRunEnd
    <3> QED BY <3>1, <1>0, <2>1
  <2>2. CASE n # Len(p) /\ p[n + 1] # p[n]
    <3>1. IsRunEnd(p, n, n)
        BY <2>2, <1>0 DEF IsRunEnd
    <3> QED BY <3>1, <1>0, <2>2
  <2>3. CASE n # Len(p) /\ p[n + 1] = p[n]
    <3>1. n + 1 \in T
        BY <1>0, <1>1, <2>3
    <3>2. PICK j \in (n + 1)..Len(p) : IsRunEnd(p, n + 1, j)
        BY <3>1
    <3>3. IsRunEnd(p, n, j)
      <4>1. \A k \in n..j : k = n \/ k \in (n + 1)..j
          BY <1>0
      <4> QED BY <2>3, <3>2, <4>1, <1>0 DEF IsRunEnd
    <3> QED BY <3>3, <1>0
  <2> QED BY <2>1, <2>2, <2>3
<1>2. i \in T
  <2> HIDE DEF T
  <2> QED BY <1>0, <1>1, DownInduction
<1>3. \E j \in i..Len(p) : (\A k \in i..j : p[k] = p[i]) /\ (j = Len(p) \/ p[j + 1] # p[i])
    BY <1>2 DEF IsRunEnd
<1> QED BY <1>3 DEF RunEnd, IsRunEnd

(* The pieces of a compressed payload are bytes.                             *)
LEMMA EncodedBytes ==
    ASSUME NEW b \in Byte, NEW n \in Nat
    PROVE  /\ Literal(b) \in Seq(Byte) /\ EncodeRun(b, n) \in Seq(Byte)
           /\ Len(Literal(b)) = IF b \in {RawMark, RunMark} THEN 2 ELSE 1
           /\ Len(EncodeRun(b, n)) >= 1
           /\ n >= 3 => Len(EncodeRun(b, n)) = 4
<1>1. RawMark \in Byte /\ RunMark \in Byte
    BY ByteBaseAssumption DEF Byte, RawMark, RunMark
<1>2. n % ByteBase \in Byte /\ (n \div ByteBase) % ByteBase \in Byte
    BY ByteBaseAssumption DEF Byte
<1>3. /\ Literal(b) \in Seq(Byte)
      /\ Len(Literal(b)) = IF b \in {RawMark, RunMark} THEN 2 ELSE 1
    BY <1>1 DEF Literal
<1>4. CASE n >= 3
  <2>1. EncodeRun(b, n) = <<RunMark, b, n % ByteBase, (n \div ByteBase) % ByteBase>>
      BY <1>4 DEF EncodeRun
  <2> DEFINE lo == n % ByteBase  hi == (n \div ByteBase) % ByteBase
  <2> HIDE DEF lo, hi
  <2>2. lo \in Byte /\ hi \in Byte
      BY <1>2 DEF lo, hi
  <2>3. <<RunMark, b, lo, hi>> \in Seq(Byte) /\ Len(<<RunMark, b, lo, hi>>) = 4
      BY <1>1, <2>2
  <2> QED BY <1>3, <2>1, <2>3 DEF lo, hi
<1>5. CASE n = 2
  <2>1. EncodeRun(b, n) = Literal(b) \o Literal(b)
      BY <1>5 DEF EncodeRun
  <2>2. \A u, v \in Seq(Byte) : u \o v \in Seq(Byte) /\ Len(u \o v) = Len(u) + Len(v)
      OBVIOUS
  <2>3. /\ EncodeRun(b, n) \in Seq(Byte)
        /\ Len(EncodeRun(b, n)) = Len(Literal(b)) + Len(Literal(b))
      BY <2>1, <2>2, <1>3
  <2> QED BY <2>3, <1>3, <1>5
<1>6. CASE ~(n >= 3) /\ n # 2
    BY <1>6, <1>3 DEF EncodeRun
<1> QED BY <1>4, <1>5, <1>6

-----------------------------------------------------------------------------
(* The encoder and the decoder are well defined.                             *)

Encodes(p, enc) ==
    /\ enc \in [1..(Len(p) + 1) -> Seq(Byte)]
    /\ \A i \in 1..Len(p) : enc[i] = EncodeRun(p[i], RunEnd(p, i) - i + 1) \o enc[RunEnd(p, i) + 1]
    /\ enc[Len(p) + 1] = <<>>

LEMMA CompressDefined ==
    ASSUME NEW p \in Seq(Byte)
    PROVE  \E enc : Encodes(p, enc) /\ compress_bytes(p) = <<RunMark>> \o enc[1]
<1> DEFINE m == Len(p) + 1
           S == Seq(Byte)
           Piece(i) == EncodeRun(p[i], RunEnd(p, i) - i + 1)
           Coded(i, f) == IF i > Len(p) THEN <<>> ELSE Piece(i) \o f[RunEnd(p, i) + 1]
           B == [x \in (1..m) \X [1..m -> S] |-> Coded(x[1], x[2])]
           Body(f) == [i \in 1..m |-> Coded(i, f)]
<1>1. Len(p) \in Nat /\ m \in Nat /\ \A i \in 1..m : i > Len(p) <=> i \notin 1..Len(p)
    OBVIOUS
<1>2. ASSUME NEW i \in 1..Len(p)
      PROVE  Piece(i) \in S /\ RunEnd(p, i) + 1 \in (i + 1)..m /\ RunEnd(p, i) + 1 \in 1..m
  <2>1. RunEnd(p, i) \in i..Len(p)
      BY RunEndIs DEF IsRunEnd
  <2>2. RunEnd(p, i) - i + 1 \in Nat
      BY <2>1, <1>1
  <2>3. p[i] \in Byte
      OBVIOUS
  <2>4. Piece(i) \in S
      BY <2>2, <2>3, EncodedBytes
  <2> QED BY <2>1, <2>4, <1>1
<1>c. \A u, v \in S : u \o v \in S
    OBVIOUS
<1> HIDE DEF Piece
<1>3. ASSUME NEW i \in 1..m, NEW f, \A j \in (i + 1)..m : f[j] \in S PROVE Coded(i, f) \in S
  <2>1. CASE i > Len(p)
      BY <2>1
  <2>2. CASE ~(i > Len(p))
    <3>1. i \in 1..Len(p)
        BY <2>2, <1>1
    <3>2. f[RunEnd(p, i) + 1] \in S /\ Piece(i) \in S
        BY <3>1, <1>2, <1>3
    <3>3. Piece(i) \o f[RunEnd(p, i) + 1] \in S
      <4> HIDE DEF S
      <4> QED BY <3>2, <1>c
    <3> QED BY <2>2, <3>3
  <2> QED BY <2>1, <2>2
<1>4. B \in [(1..m) \X [1..m -> S] -> S]
  <2>1. ASSUME NEW i \in 1..m, NEW f \in [1..m -> S] PROVE Coded(i, f) \in S
    <3>1. \A j \in (i + 1)..m : f[j] \in S
        BY <1>1
    <3> HIDE DEF Coded, S
    <3> QED BY <3>1, <1>3
  <2> HIDE DEF Coded, S, m
  <2> QED BY <2>1
<1>5. ASSUME NEW i \in 1..m, NEW f \in [1..m -> S], NEW g \in [1..m -> S],
             \A j \in (i + 1)..m : f[j] = g[j]
      PROVE  B[<<i, f>>] = B[<<i, g>>]
  <2>1. Coded(i, f) = Coded(i, g)
    <3>1. CASE i > Len(p)
        BY <3>1
    <3>2. CASE ~(i > Len(p))
      <4>1. i \in 1..Len(p)
          BY <3>2, <1>1
      <4>2. f[RunEnd(p, i) + 1] = g[RunEnd(p, i) + 1]
          BY <4>1, <1>2, <1>5
      <4> QED BY <4>2
    <3> QED BY <3>1, <3>2
  <2>2. <<i, f>> \in (1..m) \X [1..m -> S] /\ <<i, g>> \in (1..m) \X [1..m -> S]
      OBVIOUS
  <2> HIDE DEF Coded, S, m
  <2>3. B[<<i, f>>] = Coded(i, f) /\ B[<<i, g>>] = Coded(i, g)
      BY <2>2
  <2> QED BY <2>1, <2>3
<1>6. PICK f : Solves(f, m, S, B)
  <2>1. <<>> \in S
      OBVIOUS
  <2> HIDE DEF m, S, B
  <2> QED BY <1>1, <1>4, <1>5, <2>1, BackwardsDefined
<1>7. f = Body(f)
  <2>1. f \in [1..m -> S] /\ \A i \in 1..m : f[i] = B[<<i, f>>]
    <3> HIDE DEF m, S, B
    <3> QED BY <1>6 DEF Solves
  <2>2. ASSUME NEW i \in 1..m PROVE f[i] = Coded(i, f)
    <3>1. <<i, f>> \in (1..m) \X [1..m -> S]
        BY <2>1
    <3> HIDE DEF Coded, S, m
    <3> QED BY <2>1, <3>1
  <2>3. f = [i \in 1..m |-> f[i]]
      BY <2>1
  <2> HIDE DEF Coded, m, S
  <2> QED BY <2>2, <2>3
<1> DEFINE enc == CHOOSE g : g = Body(g)
<1>8. compress_bytes(p) = <<RunMark>> \o enc[1]
    BY DEF compress_bytes, Piece
<1>9. enc = Body(enc)
  <2> HIDE DEF Body
  <2> QED BY <1>7
<1> HIDE DEF enc
<1>10. \A i \in 1..m : enc[i] = Coded(i, enc)
  <2> HIDE DEF Coded
  <2> QED BY <1>9
<1>11. \A i \in 1..m : enc[i] \in S
  <2> DEFINE T == {i \in 1..m : enc[i] \in S}
  <2>1. ASSUME NEW i \in 1..m, \A j \in (i + 1)..m : j \in T PROVE i \in T
    <3>1. \A j \in (i + 1)..m : enc[j] \in S
        BY <2>1
    <3>2. Coded(i, enc) \in S
      <4> HIDE DEF Coded, S
      <4> QED BY <3>1, <1>3
    <3>3. enc[i] \in S
        BY <1>10, <3>2
    <3> QED BY <3>3
  <2>2. \A i \in 1..m : i \in T
    <3> HIDE DEF T, m
    <3> QED BY <1>1, <2>1, DownInduction
  <2> QED BY <2>2
<1>12. enc \in [1..m -> S]
  <2>1. DOMAIN enc = 1..m /\ enc = [i \in DOMAIN enc |-> enc[i]]
    <3> HIDE DEF Coded
    <3> QED BY <1>9
  <2> HIDE DEF S, m
  <2> QED BY <2>1, <1>11
<1>13. /\ \A i \in 1..Len(p) : enc[i] = Piece(i) \o enc[RunEnd(p, i) + 1]
       /\ enc[m] = <<>>
  <2>1. \A i \in 1..Len(p) : i \in 1..m /\ ~(i > Len(p))
      BY <1>1
  <2>2. m \in 1..m /\ m > Len(p)
      BY <1>1
  <2> QED BY <2>1, <2>2, <1>10
<1> QED BY <1>8, <1>12, <1>13 DEF Encodes, Piece

(* What the decoder reads at a position, given what it reads after it.       *)
Read(q, i, dec) ==
    IF q[i] = RawMark
    THEN IF i + 1 <= Len(q) THEN <<q[i + 1]>> \o dec[i + 2] ELSE <<>>
    ELSE IF q[i] = RunMark
         THEN IF i + 4 <= Len(q)
              THEN [k \in 1..(q[i + 2] + ByteBase * q[i + 3]) |-> q[i + 1]] \o dec[i + 4]
              ELSE dec[i + 1]
    ELSE <<q[i]>> \o dec[i + 1]

Decodes(q, dec) ==
    /\ dec \in [1..(Len(q) + 1) -> Seq(Byte)]
    /\ \A i \in 1..Len(q) : dec[i] = Read(q, i, dec)
    /\ dec[Len(q) + 1] = <<>>

LEMMA ReadBytes ==
    ASSUME NEW q \in Seq(Byte), NEW i \in 1..Len(q), NEW f,
           \A j \in (i + 1)..(Len(q) + 1) : f[j] \in Seq(Byte)
    PROVE  Read(q, i, f) \in Seq(Byte)
<1>1. Len(q) \in Nat /\ i \in Nat /\ q[i] \in Byte
    OBVIOUS
<1>2. \A u, v \in Seq(Byte) : u \o v \in Seq(Byte)
    OBVIOUS
<1>3. CASE q[i] = RawMark
  <2>1. CASE i + 1 <= Len(q)
    <3>1. q[i + 1] \in Byte /\ f[i + 2] \in Seq(Byte)
        BY <1>1, <2>1
    <3>2. <<q[i + 1]>> \in Seq(Byte)
        BY <3>1
    <3> QED BY <1>2, <1>3, <2>1, <3>1, <3>2 DEF Read
  <2>2. CASE ~(i + 1 <= Len(q))
      BY <1>3, <2>2 DEF Read
  <2> QED BY <2>1, <2>2
<1>4. CASE q[i] # RawMark /\ q[i] = RunMark
  <2>1. CASE i + 4 <= Len(q)
    <3> DEFINE n == q[i + 2] + ByteBase * q[i + 3]
               run == [k \in 1..n |-> q[i + 1]]
    <3>1. q[i + 1] \in Byte /\ q[i + 2] \in Byte /\ q[i + 3] \in Byte /\ f[i + 4] \in Seq(Byte)
        BY <1>1, <2>1
    <3>2. n \in Nat
      <4>1. q[i + 2] \in Nat /\ q[i + 3] \in Nat /\ ByteBase \in Nat
          BY <3>1, ByteBaseAssumption DEF Byte
      <4>2. \A x, y \in Nat : x * y \in Nat
          OBVIOUS
      <4>3. ByteBase * q[i + 3] \in Nat
          BY <4>1, <4>2
      <4> QED BY <4>1, <4>3
    <3> HIDE DEF n
    <3>3. run \in Seq(Byte)
        BY <3>1, <3>2
    <3> HIDE DEF run
    <3>4. run \o f[i + 4] \in Seq(Byte)
        BY <1>2, <3>1, <3>3
    <3>5. Read(q, i, f) = run \o f[i + 4]
        BY <1>4, <2>1 DEF Read, run, n
    <3> QED BY <3>4, <3>5
  <2>2. CASE ~(i + 4 <= Len(q))
    <3>1. f[i + 1] \in Seq(Byte)
        BY <1>1
    <3> QED BY <1>4, <2>2, <3>1 DEF Read
  <2> QED BY <2>1, <2>2
<1>5. CASE q[i] # RawMark /\ q[i] # RunMark
  <2>1. f[i + 1] \in Seq(Byte) /\ <<q[i]>> \in Seq(Byte)
      BY <1>1
  <2> QED BY <1>2, <1>5, <2>1 DEF Read
<1> QED BY <1>3, <1>4, <1>5

LEMMA ReadDepends ==
    ASSUME NEW q \in Seq(Byte), NEW i \in 1..Len(q), NEW f, NEW g,
           \A j \in (i + 1)..(Len(q) + 1) : f[j] = g[j]
    PROVE  Read(q, i, f) = Read(q, i, g)
<1>1. Len(q) \in Nat /\ i \in Nat /\ f[i + 1] = g[i + 1]
    OBVIOUS
<1>2. i + 1 <= Len(q) => f[i + 2] = g[i + 2]
    BY <1>1
<1>3. i + 4 <= Len(q) => f[i + 4] = g[i + 4]
    BY <1>1
<1> QED BY <1>1, <1>2, <1>3 DEF Read

LEMMA ExpandDefined ==
    ASSUME NEW q \in Seq(Byte)
    PROVE  \E dec : Decodes(q, dec) /\ ExpandItems(q) = dec[2]
<1> DEFINE m == Len(q) + 1
           S == Seq(Byte)
           Coded(i, f) == IF i > Len(q) THEN <<>> ELSE Read(q, i, f)
           B == [x \in (1..m) \X [1..m -> S] |-> Coded(x[1], x[2])]
           Body(f) == [i \in 1..m |-> Coded(i, f)]
<1>1. Len(q) \in Nat /\ m \in Nat /\ \A i \in 1..m : i > Len(q) <=> i \notin 1..Len(q)
    OBVIOUS
<1>3. ASSUME NEW i \in 1..m, NEW f, \A j \in (i + 1)..m : f[j] \in S PROVE Coded(i, f) \in S
  <2>1. CASE i > Len(q)
      BY <2>1
  <2>2. CASE ~(i > Len(q))
    <3>1. i \in 1..Len(q)
        BY <2>2, <1>1
    <3>2. Read(q, i, f) \in S
        BY <3>1, <1>3, ReadBytes
    <3> HIDE DEF S
    <3> QED BY <2>2, <3>2
  <2> QED BY <2>1, <2>2
<1>4. B \in [(1..m) \X [1..m -> S] -> S]
  <2>1. ASSUME NEW i \in 1..m, NEW f \in [1..m -> S] PROVE Coded(i, f) \in S
    <3>1. \A j \in (i + 1)..m : f[j] \in S
        BY <1>1
    <3> HIDE DEF Coded, S
    <3> QED BY <3>1, <1>3
  <2> HIDE DEF Coded, S, m
  <2> QED BY <2>1
<1>5. ASSUME NEW i \in 1..m, NEW f \in [1..m -> S], NEW g \in [1..m -> S],
             \A j \in (i + 1)..m : f[j] = g[j]
      PROVE  B[<<i, f>>] = B[<<i, g>>]
  <2>1. Coded(i, f) = Coded(i, g)
    <3>1. CASE i > Len(q)
        BY <3>1
    <3>2. CASE ~(i > Len(q))
      <4>1. i \in 1..Len(q)
          BY <3>2, <1>1
      <4>2. Read(q, i, f) = Read(q, i, g)
          BY <4>1, <1>5, ReadDepends
      <4> QED BY <4>2
    <3> QED BY <3>1, <3>2
  <2>2. <<i, f>> \in (1..m) \X [1..m -> S] /\ <<i, g>> \in (1..m) \X [1..m -> S]
      OBVIOUS
  <2> HIDE DEF Coded, S, m
  <2>3. B[<<i, f>>] = Coded(i, f) /\ B[<<i, g>>] = Coded(i, g)
      BY <2>2
  <2> QED BY <2>1, <2>3
<1>6. PICK f : Solves(f, m, S, B)
  <2>1. <<>> \in S
      OBVIOUS
  <2> HIDE DEF m, S, B
  <2> QED BY <1>1, <1>4, <1>5, <2>1, BackwardsDefined
<1>7. f = Body(f)
  <2>1. f \in [1..m -> S] /\ \A i \in 1..m : f[i] = B[<<i, f>>]
    <3> HIDE DEF m, S, B
    <3> QED BY <1>6 DEF Solves
  <2>2. ASSUME NEW i \in 1..m PROVE f[i] = Coded(i, f)
    <3>1. <<i, f>> \in (1..m) \X [1..m -> S]
        BY <2>1
    <3> HIDE DEF Coded, S, m
    <3> QED BY <2>1, <3>1
  <2>3. f = [i \in 1..m |-> f[i]]
      BY <2>1
  <2> HIDE DEF Coded, m, S
  <2> QED BY <2>2, <2>3
<1> DEFINE dec == CHOOSE g : g = Body(g)
<1>8. ExpandItems(q) = dec[2]
    BY DEF ExpandItems, Read
<1>9. dec = Body(dec)
  <2> HIDE DEF Body
  <2> QED BY <1>7
<1> HIDE DEF dec
<1>10. \A i \in 1..m : dec[i] = Coded(i, dec)
  <2> HIDE DEF Coded
  <2> QED BY <1>9
<1>11. \A i \in 1..m : dec[i] \in S
  <2> DEFINE T == {i \in 1..m : dec[i] \in S}
  <2>1. ASSUME NEW i \in 1..m, \A j \in (i + 1)..m : j \in T PROVE i \in T
    <3>1. \A j \in (i + 1)..m : dec[j] \in S
        BY <2>1
    <3>2. Coded(i, dec) \in S
      <4> HIDE DEF Coded, S
      <4> QED BY <3>1, <1>3
    <3>3. dec[i] \in S
        BY <1>10, <3>2
    <3> QED BY <3>3
  <2>2. \A i \in 1..m : i \in T
    <3> HIDE DEF T, m
    <3> QED BY <1>1, <2>1, DownInduction
  <2> QED BY <2>2
<1>12. dec \in [1..m -> S]
  <2>1. DOMAIN dec = 1..m /\ dec = [i \in DOMAIN dec |-> dec[i]]
    <3> HIDE DEF Coded
    <3> QED BY <1>9
  <2> HIDE DEF S, m
  <2> QED BY <2>1, <1>11
<1>13. /\ \A i \in 1..Len(q) : dec[i] = Read(q, i, dec)
       /\ dec[m] = <<>>
  <2>1. \A i \in 1..Len(q) : i \in 1..m /\ ~(i > Len(q))
      BY <1>1
  <2>2. m \in 1..m /\ m > Len(q)
      BY <1>1
  <2> QED BY <2>1, <2>2, <1>10
<1> QED BY <1>8, <1>12, <1>13 DEF Decodes

-----------------------------------------------------------------------------
(* Decoding one piece.                                                       *)

(* The payload q goes on with e at position pos; it ends with e there.       *)
Starts(q, pos, e) ==
    pos - 1 + Len(e) <= Len(q) /\ \A k \in 1..Len(e) : q[pos - 1 + k] = e[k]
EndsWith(q, pos, e) == Starts(q, pos, e) /\ pos - 1 + Len(e) = Len(q)

(* A concatenation is its first part, then its second.                       *)
LEMMA StartsConcat ==
    ASSUME NEW q \in Seq(Byte), NEW u \in Seq(Byte), NEW v \in Seq(Byte),
           NEW pos \in Nat \ {0}, Starts(q, pos, u \o v)
    PROVE  /\ Starts(q, pos, u) /\ Starts(q, pos + Len(u), v)
           /\ EndsWith(q, pos, u \o v) => EndsWith(q, pos + Len(u), v)
<1>1. /\ Len(u) \in Nat /\ Len(v) \in Nat /\ Len(q) \in Nat
      /\ Len(u \o v) = Len(u) + Len(v)
      /\ \A k \in 1..Len(u) : (u \o v)[k] = u[k]
      /\ \A k \in 1..Len(v) : (u \o v)[Len(u) + k] = v[k]
    BY ConcatProperties
<1> DEFINE w == u \o v
<1> HIDE DEF w
<1>2. pos - 1 + (Len(u) + Len(v)) <= Len(q) /\ \A k \in 1..(Len(u) + Len(v)) : q[pos - 1 + k] = w[k]
    BY <1>1 DEF Starts, w
<1>3. Starts(q, pos, u)
  <2>1. \A k \in 1..Len(u) : k \in 1..(Len(u) + Len(v)) /\ w[k] = u[k]
      BY <1>1 DEF w
  <2>2. pos - 1 + Len(u) <= Len(q)
      BY <1>1, <1>2
  <2> QED BY <1>2, <2>1, <2>2 DEF Starts
<1>4. Starts(q, pos + Len(u), v)
  <2>1. ASSUME NEW k \in 1..Len(v) PROVE q[pos + Len(u) - 1 + k] = v[k]
    <3>1. Len(u) + k \in 1..(Len(u) + Len(v)) /\ pos - 1 + (Len(u) + k) = pos + Len(u) - 1 + k
        BY <1>1
    <3>2. q[pos - 1 + (Len(u) + k)] = w[Len(u) + k] /\ w[Len(u) + k] = v[k]
        BY <1>1, <1>2, <3>1 DEF w
    <3> QED BY <3>1, <3>2
  <2>2. pos + Len(u) - 1 + Len(v) <= Len(q)
      BY <1>1, <1>2
  <2> QED BY <2>1, <2>2 DEF Starts
<1>5. EndsWith(q, pos, w) => EndsWith(q, pos + Len(u), v)
  <2>1. Len(w) = Len(u) + Len(v)
      BY <1>1 DEF w
  <2> QED BY <2>1, <1>1, <1>4 DEF EndsWith
<1> QED BY <1>3, <1>4, <1>5 DEF w

(* A literal is read as its byte.                                            *)
LEMMA ReadsLiteral ==
    ASSUME NEW q \in Seq(Byte), NEW dec, Decodes(q, dec), NEW b \in Byte,
           NEW pos \in Nat \ {0}, Starts(q, pos, Literal(b))
    PROVE  /\ pos + Len(Literal(b)) \in 1..(Len(q) + 1)
           /\ dec[pos] = <<b>> \o dec[pos + Len(Literal(b))]
<1>1. Len(q) \in Nat /\ RawMark = 0 /\ RunMark = 1
    BY DEF RawMark, RunMark
<1>2. CASE b \in {RawMark, RunMark}
  <2>1. Literal(b) = <<RawMark, b>> /\ Len(Literal(b)) = 2
      BY <1>2 DEF Literal
  <2>2. pos + 1 <= Len(q) /\ pos \in 1..Len(q) /\ pos + 2 \in 1..(Len(q) + 1)
      BY <1>1, <2>1 DEF Starts
  <2>3. q[pos] = RawMark /\ q[pos + 1] = b
    <3>1. 1 \in 1..2 /\ 2 \in 1..2 /\ pos - 1 + 1 = pos /\ pos - 1 + 2 = pos + 1
        OBVIOUS
    <3>2. q[pos - 1 + 1] = Literal(b)[1] /\ q[pos - 1 + 2] = Literal(b)[2]
        BY <2>1, <3>1 DEF Starts
    <3> QED BY <2>1, <3>1, <3>2
  <2>4. dec[pos] = Read(q, pos, dec)
      BY <2>2 DEF Decodes
  <2>5. Read(q, pos, dec) = <<b>> \o dec[pos + 2]
      BY <2>2, <2>3 DEF Read
  <2> QED BY <2>1, <2>2, <2>4, <2>5
<1>3. CASE b \notin {RawMark, RunMark}
  <2>1. Literal(b) = <<b>> /\ Len(Literal(b)) = 1
      BY <1>3 DEF Literal
  <2>2. pos \in 1..Len(q) /\ pos + 1 \in 1..(Len(q) + 1)
      BY <1>1, <2>1 DEF Starts
  <2>3. q[pos] = b
    <3>1. 1 \in 1..1 /\ pos - 1 + 1 = pos
        OBVIOUS
    <3>2. q[pos - 1 + 1] = Literal(b)[1]
        BY <2>1, <3>1 DEF Starts
    <3> QED BY <2>1, <3>1, <3>2
  <2>4. dec[pos] = Read(q, pos, dec)
      BY <2>2 DEF Decodes
  <2>5. Read(q, pos, dec) = <<b>> \o dec[pos + 1]
      BY <1>3, <2>3 DEF Read
  <2> QED BY <2>1, <2>2, <2>4, <2>5
<1> QED BY <1>2, <1>3

(* Two digits are a number.                                                  *)
LEMMA TwoDigits ==
    ASSUME NEW n \in Nat, n < ByteBase * ByteBase
    PROVE  (n % ByteBase) + ByteBase * ((n \div ByteBase) % ByteBase) = n
<1> DEFINE B == ByteBase  d == n \div B  r == n % B
<1>1. B \in Nat /\ B > 0
    BY ByteBaseAssumption
<1>2. d \in Nat /\ r \in 0..(B - 1) /\ n = B * d + r
    BY <1>1
<1>3. d < B
  <2> SUFFICES ASSUME d >= B PROVE FALSE
      BY <1>1, <1>2
  <2> HIDE DEF d, r, B
  <2>1. \A x, y, z \in Nat : x >= y => z * x >= z * y
      OBVIOUS
  <2>2. B * d >= B * B
      BY <1>1, <1>2, <2>1
  <2>3. n < B * B
      BY DEF B
  <2>4. B * B \in Nat /\ B * d \in Nat
      BY <1>1, <1>2
  <2> QED BY <1>1, <1>2, <2>2, <2>3, <2>4
<1>4. d % B = d
    BY <1>1, <1>2, <1>3
<1> QED BY <1>1, <1>2, <1>4

(* The bytes of a run.                                                       *)
Repeat(b, n) == [k \in 1..n |-> b]

LEMMA ReadsRun ==
    ASSUME NEW q \in Seq(Byte), NEW dec, Decodes(q, dec), NEW b \in Byte,
           NEW n \in Nat \ {0}, n < ByteBase * ByteBase,
           NEW pos \in Nat \ {0}, Starts(q, pos, EncodeRun(b, n)),
           n >= 3 => pos + 4 <= Len(q)
    PROVE  /\ pos + Len(EncodeRun(b, n)) \in 1..(Len(q) + 1)
           /\ dec[pos] = Repeat(b, n) \o dec[pos + Len(EncodeRun(b, n))]
<1>1. Len(q) \in Nat /\ RawMark = 0 /\ RunMark = 1 /\ b \in Nat
    BY ByteBaseAssumption DEF RawMark, RunMark, Byte
<1>2. CASE n >= 3
  <2> DEFINE lo == n % ByteBase  hi == (n \div ByteBase) % ByteBase
             e == EncodeRun(b, n)
  <2>1. e = <<RunMark, b, lo, hi>>
      BY <1>2 DEF EncodeRun
  <2> HIDE DEF lo, hi, e
  <2>2. Len(e) = 4 /\ e[1] = RunMark /\ e[2] = b /\ e[3] = lo /\ e[4] = hi
      BY <2>1
  <2>3. \A k \in 1..4 : q[pos - 1 + k] = e[k]
      BY <2>2 DEF Starts, e
  <2>4. q[pos] = RunMark /\ q[pos + 1] = b /\ q[pos + 2] = lo /\ q[pos + 3] = hi
    <3>1. q[pos - 1 + 1] = RunMark /\ q[pos - 1 + 2] = b /\ q[pos - 1 + 3] = lo
          /\ q[pos - 1 + 4] = hi
        BY <2>2, <2>3
    <3>2. pos - 1 + 1 = pos /\ pos - 1 + 2 = pos + 1 /\ pos - 1 + 3 = pos + 2
          /\ pos - 1 + 4 = pos + 3
        OBVIOUS
    <3> QED BY <3>1, <3>2
  <2>5. pos \in 1..Len(q) /\ pos + 4 <= Len(q) /\ pos + 4 \in 1..(Len(q) + 1)
      BY <1>1, <1>2
  <2>6. dec[pos] = Read(q, pos, dec)
      BY <2>5 DEF Decodes
  <2>7. Read(q, pos, dec) = [k \in 1..(lo + ByteBase * hi) |-> b] \o dec[pos + 4]
    <3>1. q[pos] # RawMark
        BY <2>4, <1>1
    <3> QED BY <2>4, <2>5, <3>1 DEF Read
  <2>8. lo + ByteBase * hi = n
      BY TwoDigits DEF lo, hi
  <2> QED BY <2>2, <2>5, <2>6, <2>7, <2>8 DEF Repeat, e
<1> DEFINE l == Literal(b)
<1>3. l \in Seq(Byte) /\ Len(l) \in Nat
  <2>1. l \in Seq(Byte)
      BY EncodedBytes
  <2> QED BY <2>1
<1>4. Repeat(b, 1) = <<b>> /\ Repeat(b, 2) = <<b>> \o <<b>>
    BY DEF Repeat
<1>5. CASE n = 1
  <2>1. EncodeRun(b, n) = l
      BY <1>5 DEF EncodeRun
  <2>2. Starts(q, pos, l)
      BY <2>1
  <2>3. pos + Len(l) \in 1..(Len(q) + 1) /\ dec[pos] = <<b>> \o dec[pos + Len(l)]
      BY <2>2, ReadsLiteral
  <2> HIDE DEF l
  <2> QED BY <1>4, <1>5, <2>1, <2>3
<1>6. CASE n = 2
  <2>1. EncodeRun(b, n) = l \o l
      BY <1>6 DEF EncodeRun
  <2>2. Starts(q, pos, l) /\ Starts(q, pos + Len(l), l) /\ Len(l \o l) = Len(l) + Len(l)
      BY <1>3, <2>1, StartsConcat
  <2>3. pos + Len(l) \in 1..(Len(q) + 1) /\ dec[pos] = <<b>> \o dec[pos + Len(l)]
      BY <2>2, ReadsLiteral
  <2>4. pos + Len(l) \in Nat \ {0}
      BY <2>3
  <2> DEFINE at == pos + Len(l)
  <2> HIDE DEF at, l
  <2>5. at + Len(l) \in 1..(Len(q) + 1) /\ dec[at] = <<b>> \o dec[at + Len(l)]
      BY <2>2, <2>4, ReadsLiteral, ZenonT(60) DEF at, l
  <2>6. at + Len(l) = pos + (Len(l) + Len(l))
      BY <1>3 DEF at
  <2>7. dec[at + Len(l)] \in Seq(Byte) /\ <<b>> \in Seq(Byte)
      BY <2>5 DEF Decodes
  <2>8. <<b>> \o (<<b>> \o dec[at + Len(l)]) = (<<b>> \o <<b>>) \o dec[at + Len(l)]
      BY <2>7, ConcatAssociative
  <2>9. dec[pos] = (<<b>> \o <<b>>) \o dec[at + Len(l)]
      BY <2>3, <2>5, <2>8 DEF at
  <2> QED BY <1>4, <1>6, <2>1, <2>2, <2>5, <2>6, <2>9
<1>7. n >= 3 \/ n = 1 \/ n = 2
    OBVIOUS
<1> QED BY <1>2, <1>5, <1>6, <1>7

-----------------------------------------------------------------------------
(* Decoding a payload.                                                       *)

LEMMA Joined ==
    ASSUME NEW u \in Seq(Byte), NEW v \in Seq(Byte), NEW w \in Seq(Byte)
    PROVE  u \o (v \o w) = (u \o v) \o w
BY ConcatAssociative, SMTT(30)

(* The part of a payload between two run boundaries.                         *)
LEMMA RunSplitsPayload ==
    ASSUME NEW p \in Seq(Byte), NEW i \in 1..Len(p), NEW j \in i..Len(p),
           \A k \in i..j : p[k] = p[i], NEW L \in (j + 1)..(Len(p) + 1)
    PROVE  /\ SubSeq(p, i, L - 1) = Repeat(p[i], j - i + 1) \o SubSeq(p, j + 1, L - 1)
           /\ Repeat(p[i], j - i + 1) \in Seq(Byte)
           /\ SubSeq(p, j + 1, L - 1) \in Seq(Byte) /\ SubSeq(p, i, L - 1) \in Seq(Byte)
<1>1. Len(p) \in Nat /\ i \in Nat /\ j \in Nat /\ L \in Nat /\ p[i] \in Byte
    OBVIOUS
<1>2. /\ i \in 1..(Len(p) + 1) /\ j \in (i - 1)..Len(p) /\ L - 1 \in j..Len(p)
      /\ j + 1 \in 1..(Len(p) + 1) /\ L - 1 \in ((j + 1) - 1)..Len(p) /\ L - 1 \in (i - 1)..Len(p)
    BY <1>1
<1>3. SubSeq(p, i, j) \o SubSeq(p, j + 1, L - 1) = SubSeq(p, i, L - 1)
    BY <1>2, ConcatAdjacentSubSeq
<1>4. /\ SubSeq(p, i, j) \in Seq(Byte) /\ Len(SubSeq(p, i, j)) = j - i + 1
      /\ \A k \in 1..(j - i + 1) : SubSeq(p, i, j)[k] = p[i + k - 1]
    BY <1>2, SubSeqProperties
<1>5. SubSeq(p, j + 1, L - 1) \in Seq(Byte) /\ SubSeq(p, i, L - 1) \in Seq(Byte)
    BY <1>2, SubSeqProperties
<1>6. SubSeq(p, i, j) = Repeat(p[i], j - i + 1)
  <2> DEFINE w == SubSeq(p, i, j)  n == j - i + 1
  <2>1. n \in Nat /\ w = [k \in 1..n |-> w[k]]
      BY <1>1, <1>4
  <2>2. ASSUME NEW k \in 1..n PROVE w[k] = p[i]
    <3>1. i + k - 1 \in i..j
        BY <1>1
    <3> QED BY <3>1, <1>4
  <2> HIDE DEF w, n
  <2>3. w = [k \in 1..n |-> p[i]]
      BY <2>1, <2>2
  <2> QED BY <2>3 DEF Repeat, w, n
<1> QED BY <1>3, <1>4, <1>5, <1>6

(* Up to a run boundary L before the end, or to the end when that is no run, *)
(* the decoder gives back what was encoded.                                  *)
Decoded(p, enc, q, dec, L, i, pos) ==
    LET rest == Len(q) - Len(enc[L]) + 1
    IN  /\ rest \in 1..(Len(q) + 1) /\ EndsWith(q, rest, enc[L])
        /\ dec[pos] = SubSeq(p, i, L - 1) \o dec[rest]

LEMMA DecodesUpTo ==
    ASSUME NEW p \in Seq(Byte), RunsFit(p), NEW enc, Encodes(p, enc),
           NEW q \in Seq(Byte), NEW dec, Decodes(q, dec),
           NEW L \in 1..(Len(p) + 1), \A i \in 1..(L - 1) : RunEnd(p, i) < L,
           L <= Len(p) \/ ~EndsInRun(p)
    PROVE  \A i \in 1..L : \A pos \in Nat \ {0} :
              EndsWith(q, pos, enc[i]) => Decoded(p, enc, q, dec, L, i, pos)
<1> DEFINE N == Len(p)
           X == Len(q) - Len(enc[L]) + 1
           Good(i, pos) == /\ X \in 1..(Len(q) + 1)
                           /\ EndsWith(q, X, enc[L])
                           /\ dec[pos] = SubSeq(p, i, L - 1) \o dec[X]
           T == {i \in 1..L : \A pos \in Nat \ {0} : EndsWith(q, pos, enc[i]) => Good(i, pos)}
<1>1. N \in Nat /\ L \in Nat /\ Len(q) \in Nat /\ L <= N + 1
    OBVIOUS
<1>e. /\ \A i \in 1..(N + 1) : enc[i] \in Seq(Byte) /\ Len(enc[i]) \in Nat
      /\ \A i \in 1..N : enc[i] = EncodeRun(p[i], RunEnd(p, i) - i + 1) \o enc[RunEnd(p, i) + 1]
      /\ enc[N + 1] = <<>>
  <2>1. \A i \in 1..(N + 1) : enc[i] \in Seq(Byte)
      BY DEF Encodes
  <2>2. \A u \in Seq(Byte) : Len(u) \in Nat
      OBVIOUS
  <2>3. \A i \in 1..(N + 1) : Len(enc[i]) \in Nat
      BY <2>1, <2>2
  <2> QED BY <2>1, <2>3 DEF Encodes
<1>d. \A k \in 1..(Len(q) + 1) : dec[k] \in Seq(Byte)
    BY DEF Decodes
<1>2. ASSUME NEW i \in 1..L, \A j \in (i + 1)..L : j \in T PROVE i \in T
  <2> SUFFICES ASSUME NEW pos \in Nat \ {0}, EndsWith(q, pos, enc[i]) PROVE Good(i, pos)
      OBVIOUS
  <2>1. CASE i = L
    <3>1. Len(enc[L]) \in Nat /\ pos - 1 + Len(enc[L]) = Len(q)
        BY <1>1, <1>e, <2>1 DEF EndsWith
    <3>2. pos = X /\ X \in 1..(Len(q) + 1)
      <4> DEFINE z == Len(enc[L])  y == Len(q)
      <4>1. z \in Nat /\ y \in Nat /\ pos - 1 + z = y /\ X = y - z + 1
          BY <1>1, <3>1
      <4> HIDE DEF z, y, X, T
      <4> QED BY <4>1 DEF y
    <3>3. SubSeq(p, i, L - 1) = <<>>
        BY <2>1, <1>1
    <3>4. dec[X] = <<>> \o dec[X]
      <4>1. dec[X] \in Seq(Byte)
          BY <3>2, <1>d
      <4> HIDE DEF X
      <4> QED BY <4>1, ConcatEmptySeq
    <3> HIDE DEF X
    <3> QED BY <2>1, <3>2, <3>3, <3>4
  <2>2. CASE i # L
    <3> DEFINE j == RunEnd(p, i)  n == j - i + 1  e == EncodeRun(p[i], n)
               next == pos + Len(e)
    <3>1. i \in 1..N /\ i \in 1..(L - 1) /\ i \in Nat
        BY <1>1, <2>2
    <3>2. IsRunEnd(p, i, j)
        BY <3>1, RunEndIs
    <3>3. j \in i..N /\ j < L /\ j \in Nat /\ \A k \in i..j : p[k] = p[i]
      <4>1. j \in i..N /\ \A k \in i..j : p[k] = p[i]
          BY <3>2 DEF IsRunEnd
      <4>2. j < L
          BY <3>1
      <4> QED BY <4>1, <4>2, <3>1, <1>1
    <3>4. n \in Nat \ {0} /\ p[i] \in Byte /\ n < ByteBase * ByteBase
      <4>1. n < ByteBase * ByteBase
          BY <3>1 DEF RunsFit
      <4>2. n \in Nat \ {0}
        <5> HIDE DEF j
        <5> QED BY <3>1, <3>3
      <4> QED BY <4>1, <4>2, <3>1
    <3>5. enc[i] = e \o enc[j + 1]
        BY <3>1, <1>e
    <3> HIDE DEF j, n
    <3>6. e \in Seq(Byte) /\ Len(e) \in Nat /\ Len(e) >= 1 /\ (n >= 3 => Len(e) = 4)
      <4>1. e \in Seq(Byte) /\ Len(e) >= 1 /\ (n >= 3 => Len(e) = 4)
          BY <3>4, EncodedBytes
      <4> QED BY <4>1
    <3> HIDE DEF e
    <3>7. j + 1 \in (i + 1)..L /\ j + 1 \in 1..(N + 1) /\ j + 1 \in 1..L
        BY <3>1, <3>3, <1>1
    <3>8. Starts(q, pos, e) /\ EndsWith(q, next, enc[j + 1]) /\ next \in Nat \ {0}
      <4>1. enc[j + 1] \in Seq(Byte)
          BY <3>7, <1>e
      <4>2. EndsWith(q, pos, e \o enc[j + 1]) /\ Starts(q, pos, e \o enc[j + 1])
          BY <3>5 DEF EndsWith
      <4> QED BY <4>1, <4>2, <3>6, StartsConcat
    <3>9. n >= 3 => pos + 4 <= Len(q)
      <4> SUFFICES ASSUME n >= 3 PROVE pos + 4 <= Len(q)
          OBVIOUS
      <4>1. j + 1 <= N
        <5> SUFFICES ASSUME j = N PROVE FALSE
            BY <3>3, <1>1
        <5>1. L = N + 1 /\ ~(L <= N)
            BY <3>3, <1>1
        <5>2. n = N - i + 1
            BY DEF n
        <5>3. N >= 3 /\ N \in i..j /\ N - 1 \in i..j /\ N - 2 \in i..j
            BY <5>2, <3>1, <3>3, <1>1
        <5>4. EndsInRun(p)
            BY <5>3, <3>3 DEF EndsInRun
        <5> QED BY <5>1, <5>4
      <4>2. j + 1 \in 1..N /\ p[j + 1] \in Byte
          BY <4>1, <3>7
      <4>3. Len(enc[j + 1]) >= 1
        <5> DEFINE jj == RunEnd(p, j + 1)  nn == jj - (j + 1) + 1
                   ee == EncodeRun(p[j + 1], nn)
        <5>1. jj \in (j + 1)..N
            BY <4>2, RunEndIs DEF IsRunEnd
        <5>2. nn \in Nat
          <6> HIDE DEF jj
          <6> QED BY <5>1, <4>2
        <5>3. enc[j + 1] = ee \o enc[jj + 1]
            BY <4>2, <1>e
        <5> HIDE DEF jj, nn
        <5>4. ee \in Seq(Byte) /\ Len(ee) >= 1
            BY <5>2, <4>2, EncodedBytes
        <5>5. enc[jj + 1] \in Seq(Byte)
          <6>1. jj + 1 \in 1..(N + 1)
              BY <5>1, <4>2
          <6> QED BY <6>1, <1>e
        <5> HIDE DEF ee
        <5>6. Len(enc[j + 1]) = Len(ee) + Len(enc[jj + 1])
            BY <5>3, <5>4, <5>5
        <5>7. Len(ee) \in Nat /\ Len(enc[jj + 1]) \in Nat
            BY <5>4, <5>5
        <5> QED BY <5>4, <5>6, <5>7
      <4>4. next - 1 + Len(enc[j + 1]) = Len(q) /\ Len(enc[j + 1]) \in Nat
          BY <3>8, <3>7, <1>e DEF EndsWith
      <4>5. ASSUME NEW a \in Nat, NEW c \in Nat, NEW y \in Nat, a = 4, c >= 1,
                   (pos + a) - 1 + c = y
            PROVE  pos + 4 <= y
          BY <4>5
      <4>6. Len(e) \in Nat /\ Len(e) = 4 /\ Len(enc[j + 1]) \in Nat /\ Len(q) \in Nat
          BY <4>4, <3>6, <1>1
      <4> QED BY <4>3, <4>4, <4>5, <4>6
    <3>10. next \in 1..(Len(q) + 1) /\ dec[pos] = Repeat(p[i], n) \o dec[next]
      <4>1. Starts(q, pos, EncodeRun(p[i], n))
          BY <3>8 DEF e
      <4>2. /\ pos + Len(EncodeRun(p[i], n)) \in 1..(Len(q) + 1)
            /\ dec[pos] = Repeat(p[i], n) \o dec[pos + Len(EncodeRun(p[i], n))]
        <5> HIDE DEF T
        <5>1. p[i] \in Byte /\ n \in Nat \ {0} /\ n < ByteBase * ByteBase
              /\ (n >= 3 => pos + 4 <= Len(q))
            BY <3>4, <3>9
        <5> DEFINE b == p[i]
        <5>2. b \in Byte /\ Starts(q, pos, EncodeRun(b, n))
            BY <4>1, <5>1
        <5> HIDE DEF b
        <5>3. /\ pos + Len(EncodeRun(b, n)) \in 1..(Len(q) + 1)
              /\ dec[pos] = Repeat(b, n) \o dec[pos + Len(EncodeRun(b, n))]
            BY <5>1, <5>2, ReadsRun
        <5> QED BY <5>3 DEF b
      <4> QED BY <4>2 DEF e
    <3>11. Good(j + 1, next)
      <4>1. j + 1 \in T
          BY <1>2, <3>7
      <4> HIDE DEF Good, next
      <4> QED BY <4>1, <3>8
    <3>12. /\ SubSeq(p, i, L - 1) = Repeat(p[i], n) \o SubSeq(p, j + 1, L - 1)
           /\ Repeat(p[i], n) \in Seq(Byte) /\ SubSeq(p, j + 1, L - 1) \in Seq(Byte)
      <4>1. L \in (j + 1)..(N + 1)
          BY <3>3, <1>1
      <4> QED BY <4>1, <3>1, <3>3, RunSplitsPayload DEF n
    <3> HIDE DEF X, next
    <3>13. dec[X] \in Seq(Byte)
        BY <3>11, <1>d
    <3>14. dec[pos] = Repeat(p[i], n) \o (SubSeq(p, j + 1, L - 1) \o dec[X])
        BY <3>10, <3>11
    <3>15. Repeat(p[i], n) \o (SubSeq(p, j + 1, L - 1) \o dec[X]) = SubSeq(p, i, L - 1) \o dec[X]
      <4> DEFINE u == Repeat(p[i], n)  v == SubSeq(p, j + 1, L - 1)  w == dec[X]
                 t == SubSeq(p, i, L - 1)
      <4>1. u \in Seq(Byte) /\ v \in Seq(Byte) /\ w \in Seq(Byte) /\ t = u \o v
          BY <3>12, <3>13
      <4> HIDE DEF u, v, w, t
      <4>2. u \o (v \o w) = (u \o v) \o w
          BY <4>1, Joined, ZenonT(60)
      <4>3. u \o (v \o w) = t \o w
          BY <4>1, <4>2
      <4> QED BY <4>3 DEF u, v, w, t
    <3> QED BY <3>11, <3>14, <3>15
  <2> QED BY <2>1, <2>2
<1>3. \A i \in 1..L : i \in T
  <2> HIDE DEF T
  <2> QED BY <1>1, <1>2, DownInduction
<1> QED BY <1>3 DEF Decoded

(* A run at the very end of the payload is not read as one: what its four    *)
(* bytes are read as is shorter.                                             *)
LEMMA LastRunIsLost ==
    ASSUME NEW q \in Seq(Byte), NEW dec, Decodes(q, dec), NEW b \in Byte,
           NEW n \in Nat, n >= 3, NEW X \in Nat \ {0}, EndsWith(q, X, EncodeRun(b, n))
    PROVE  Len(dec[X]) < n
<1> DEFINE lo == n % ByteBase  hi == (n \div ByteBase) % ByteBase
           e == EncodeRun(b, n)
<1>1. Len(q) \in Nat /\ RawMark = 0 /\ RunMark = 1 /\ b \in Nat /\ ByteBase \in Nat /\ ByteBase > 2
    BY ByteBaseAssumption DEF RawMark, RunMark, Byte
<1>2. e = <<RunMark, b, lo, hi>>
    BY DEF EncodeRun
<1>3. lo \in Nat /\ hi \in Nat
    BY <1>1
<1>4. n = 3 => lo = 0 \/ (lo = 3 /\ hi = 0)
  <2> SUFFICES ASSUME n = 3 PROVE lo = 0 \/ (lo = 3 /\ hi = 0)
      OBVIOUS
  <2>1. CASE ByteBase = 3
      BY <2>1
  <2>2. CASE ByteBase > 3
    <3>1. 3 % ByteBase = 3 /\ 3 \div ByteBase = 0 /\ 0 % ByteBase = 0
        BY <2>2, <1>1
    <3> QED BY <3>1
  <2> QED BY <2>1, <2>2, <1>1
<1> HIDE DEF lo, hi, e
<1>5. Len(e) = 4 /\ e[1] = RunMark /\ e[2] = b /\ e[3] = lo /\ e[4] = hi
    BY <1>2
<1>6. X + 3 = Len(q) /\ \A k \in 1..4 : q[X - 1 + k] = e[k]
    BY <1>1, <1>5 DEF EndsWith, Starts, e
<1>7. q[X] = RunMark /\ q[X + 1] = b /\ q[X + 2] = lo /\ q[X + 3] = hi
  <2>1. q[X - 1 + 1] = RunMark /\ q[X - 1 + 2] = b /\ q[X - 1 + 3] = lo /\ q[X - 1 + 4] = hi
      BY <1>5, <1>6
  <2>2. X - 1 + 1 = X /\ X - 1 + 2 = X + 1 /\ X - 1 + 3 = X + 2 /\ X - 1 + 4 = X + 3
      OBVIOUS
  <2> QED BY <2>1, <2>2
<1>8. /\ dec[X] = Read(q, X, dec) /\ dec[X + 1] = Read(q, X + 1, dec)
      /\ dec[X + 2] = Read(q, X + 2, dec) /\ dec[X + 3] = Read(q, X + 3, dec)
      /\ dec[X + 4] = <<>>
  <2>1. X \in 1..Len(q) /\ X + 1 \in 1..Len(q) /\ X + 2 \in 1..Len(q) /\ X + 3 \in 1..Len(q)
        /\ X + 4 = Len(q) + 1
      BY <1>1, <1>6
  <2> QED BY <2>1 DEF Decodes
<1>9. /\ dec[X + 1] \in Seq(Byte) /\ dec[X + 2] \in Seq(Byte) /\ dec[X + 3] \in Seq(Byte)
  <2>1. X + 1 \in 1..(Len(q) + 1) /\ X + 2 \in 1..(Len(q) + 1) /\ X + 3 \in 1..(Len(q) + 1)
      BY <1>1, <1>6
  <2> QED BY <2>1 DEF Decodes
<1>10. \A x, u : u \in Seq(Byte) /\ x \in Byte =>
          Len(<<x>> \o u) = 1 + Len(u) /\ Len(u) \in Nat
    OBVIOUS
<1>a. lo \in Byte /\ hi \in Byte /\ <<>> \in Seq(Byte) /\ Len(<<>>) = 0
  <2>1. X + 2 \in 1..Len(q) /\ X + 3 \in 1..Len(q)
      BY <1>1, <1>6
  <2> QED BY <2>1, <1>7
<1>11. Len(dec[X + 3]) <= 1 /\ (hi = 0 => Len(dec[X + 3]) = 0)
  <2>1. ~(X + 3 + 1 <= Len(q)) /\ ~(X + 3 + 4 <= Len(q)) /\ X + 3 + 1 = X + 4
      BY <1>1, <1>6
  <2>2. CASE hi = 0
      BY <2>1, <2>2, <1>1, <1>7, <1>8, <1>a DEF Read
  <2>3. CASE hi = 1
    <3>1. dec[X + 3] = <<>>
        BY <2>1, <2>3, <1>1, <1>7, <1>8 DEF Read
    <3> QED BY <3>1, <2>3, <1>a
  <2>4. CASE hi # 0 /\ hi # 1
    <3>1. dec[X + 3] = <<hi>> \o <<>>
        BY <2>1, <2>4, <1>1, <1>7, <1>8 DEF Read
    <3>2. Len(<<hi>> \o <<>>) = 1
        BY <1>10, <1>a
    <3> QED BY <3>1, <3>2, <2>4
  <2> QED BY <2>2, <2>3, <2>4
<1>12. Len(dec[X + 2]) <= 2 /\ (n = 3 => Len(dec[X + 2]) <= 1)
  <2>1. X + 2 + 1 = X + 3 /\ X + 3 <= Len(q) /\ X + 2 + 2 = X + 4 /\ ~(X + 2 + 4 <= Len(q))
      BY <1>1, <1>6
  <2>2. CASE lo = 0
    <3>1. dec[X + 2] = <<hi>> \o <<>>
        BY <2>1, <2>2, <1>1, <1>7, <1>8 DEF Read
    <3>2. Len(<<hi>> \o <<>>) = 1
        BY <1>10, <1>a
    <3> QED BY <3>1, <3>2
  <2>3. CASE lo = 1
    <3>1. dec[X + 2] = dec[X + 3]
        BY <2>1, <2>3, <1>1, <1>7, <1>8 DEF Read
    <3>2. Len(dec[X + 3]) \in Nat
        BY <1>9
    <3> QED BY <3>1, <3>2, <1>11
  <2>4. CASE lo # 0 /\ lo # 1
    <3>1. dec[X + 2] = <<lo>> \o dec[X + 3]
        BY <2>1, <2>4, <1>1, <1>7, <1>8 DEF Read
    <3>2. Len(<<lo>> \o dec[X + 3]) = 1 + Len(dec[X + 3]) /\ Len(dec[X + 3]) \in Nat
        BY <1>9, <1>10, <1>a
    <3>3. n = 3 => hi = 0
        BY <1>4, <2>4
    <3> QED BY <3>1, <3>2, <3>3, <1>11
  <2> QED BY <2>2, <2>3, <2>4
<1>13. Len(dec[X + 1]) < n
  <2>1. X + 1 + 1 = X + 2 /\ X + 2 <= Len(q) /\ X + 1 + 2 = X + 3 /\ ~(X + 1 + 4 <= Len(q))
      BY <1>1, <1>6
  <2>2. CASE b = 0
    <3>1. dec[X + 1] = <<lo>> \o dec[X + 3]
        BY <2>1, <2>2, <1>1, <1>7, <1>8 DEF Read
    <3>2. Len(<<lo>> \o dec[X + 3]) = 1 + Len(dec[X + 3]) /\ Len(dec[X + 3]) \in Nat
        BY <1>9, <1>10, <1>a
    <3> QED BY <3>1, <3>2, <1>11
  <2>3. CASE b = 1
    <3>1. dec[X + 1] = dec[X + 2]
        BY <2>1, <2>3, <1>1, <1>7, <1>8 DEF Read
    <3>2. Len(dec[X + 2]) \in Nat
        BY <1>9
    <3> QED BY <3>1, <3>2, <1>12
  <2>4. CASE b # 0 /\ b # 1
    <3>1. dec[X + 1] = <<b>> \o dec[X + 2]
        BY <2>1, <2>4, <1>1, <1>7, <1>8 DEF Read
    <3>2. Len(<<b>> \o dec[X + 2]) = 1 + Len(dec[X + 2]) /\ Len(dec[X + 2]) \in Nat
        BY <1>9, <1>10
    <3> QED BY <3>1, <3>2, <1>12
  <2> QED BY <2>2, <2>3, <2>4
<1>14. dec[X] = dec[X + 1]
  <2>1. ~(X + 4 <= Len(q))
      BY <1>1, <1>6
  <2> QED BY <2>1, <1>1, <1>7, <1>8 DEF Read
<1> QED BY <1>13, <1>14

(* Where the last run starts.                                                *)
LEMMA LastRunStarts ==
    ASSUME NEW p \in Seq(Byte), EndsInRun(p)
    PROVE  \E L \in 1..Len(p) : /\ RunEnd(p, L) = Len(p) /\ Len(p) - L + 1 >= 3
                                /\ \A i \in 1..(L - 1) : RunEnd(p, i) < L
<1> DEFINE N == Len(p)
           S == {i \in 1..N : RunEnd(p, i) = N}
<1>1. N \in Nat /\ N >= 3 /\ p[N] = p[N - 1] /\ p[N] = p[N - 2]
    BY DEF EndsInRun
<1>2. N - 2 \in S
  <2>1. N - 2 \in 1..N
      BY <1>1
  <2> DEFINE j == RunEnd(p, N - 2)
  <2>2. j \in (N - 2)..N /\ (j = N \/ p[j + 1] # p[N - 2])
    <3>1. IsRunEnd(p, N - 2, j)
        BY <2>1, RunEndIs
    <3> QED BY <3>1 DEF IsRunEnd
  <2> HIDE DEF j, N
  <2>3. j = N - 2 \/ j = N - 1 \/ j = N
      BY <1>1, <2>2
  <2>4. N - 2 + 1 = N - 1 /\ N - 1 + 1 = N
      BY <1>1
  <2>5. j = N
      BY <1>1, <2>2, <2>3, <2>4
  <2> QED BY <2>1, <2>5 DEF j
<1>3. PICK L \in S : \A i \in S : L <= i
  <2>1. S \in SUBSET Nat /\ S # {}
      BY <1>2
  <2> HIDE DEF S
  <2> QED BY <2>1, LeastNumber
<1>4. L \in 1..N /\ RunEnd(p, L) = N /\ L <= N - 2
    BY <1>2, <1>3
<1>5. \A k \in L..N : p[k] = p[L]
    BY <1>4, RunEndIs DEF IsRunEnd
<1>6. ASSUME NEW i \in 1..(L - 1) PROVE RunEnd(p, i) < L
  <2> DEFINE j == RunEnd(p, i)
  <2>1. i \in 1..N /\ i < L
      BY <1>1, <1>4
  <2>2. j \in i..N /\ (\A k \in i..j : p[k] = p[i]) /\ (j = N \/ p[j + 1] # p[i])
      BY <2>1, RunEndIs DEF IsRunEnd
  <2>3. j # N
    <3>1. i \notin S
      <4> HIDE DEF S
      <4>1. L \in Nat /\ i \in Nat
          BY <1>4, <2>1, <1>1
      <4> QED BY <2>1, <1>3, <4>1
    <3> QED BY <2>1, <3>1
  <2> HIDE DEF j
  <2> SUFFICES ASSUME j >= L PROVE FALSE
      BY <2>2, <1>4, <1>1 DEF j
  <2>4. j \in L..N /\ j + 1 \in L..N /\ j \in i..j
      BY <2>1, <2>2, <2>3, <1>4, <1>1
  <2>5. p[j] = p[L] /\ p[j + 1] = p[L] /\ p[j] = p[i]
      BY <2>2, <2>4, <1>5
  <2> QED BY <2>2, <2>3, <2>5
<1>7. N - L + 1 >= 3
    BY <1>1, <1>4
<1> QED BY <1>4, <1>6, <1>7

(* The codec of the archive (compress_metadata, expand_archived_metadata):   *)
(* a payload whose runs fit two digits comes back from compression exactly   *)
(* when it does not end in a run of three; tagged raw payloads always do.    *)
THEOREM RoundTripsAlways == \A p \in Seq(Byte) : RoundTrips(p)
<1> SUFFICES ASSUME NEW p \in Seq(Byte) PROVE RoundTrips(p)
    OBVIOUS
<1> DEFINE N == Len(p)
<1>1. N \in Nat /\ RawMark \in Byte /\ RunMark \in Byte /\ RawMark # RunMark
    BY ByteBaseAssumption DEF RawMark, RunMark, Byte
<1>2. expand_archived_metadata(tag_raw_bytes(p)) = p
  <2> DEFINE q == <<RawMark>> \o p
  <2>1. q # <<>> /\ q[1] = RawMark /\ Tail(q) = p
    <3>1. q \in Seq(Byte) /\ Len(q) = 1 + N /\ q[1] = RawMark
          /\ \A k \in 1..N : q[k + 1] = p[k]
        BY <1>1
    <3>2. q # <<>>
        BY <3>1, <1>1
    <3> HIDE DEF q
    <3>3. Tail(q) \in Seq(Byte) /\ Len(Tail(q)) = N /\ \A k \in 1..N : Tail(q)[k] = q[k + 1]
        BY <3>1, <3>2, <1>1
    <3>4. Tail(q) = p
        BY <3>1, <3>3, <1>1, SeqEqual
    <3> QED BY <3>1, <3>2, <3>4
  <2> HIDE DEF q
  <2> QED BY <2>1 DEF tag_raw_bytes, expand_archived_metadata, q
<1>3. ASSUME RunsFit(p)
      PROVE  (expand_archived_metadata(compress_bytes(p)) = p) <=> ~EndsInRun(p)
  <2>1. PICK enc : Encodes(p, enc) /\ compress_bytes(p) = <<RunMark>> \o enc[1]
      BY CompressDefined
  <2> DEFINE q == compress_bytes(p)
  <2>2. enc[1] \in Seq(Byte) /\ Len(enc[1]) \in Nat /\ \A i \in 1..(N + 1) : enc[i] \in Seq(Byte)
    <3>1. 1 \in 1..(N + 1)
        BY <1>1
    <3>2. \A i \in 1..(N + 1) : enc[i] \in Seq(Byte)
        BY <2>1 DEF Encodes
    <3>3. enc[1] \in Seq(Byte)
        BY <3>1, <3>2
    <3> QED BY <3>2, <3>3
  <2>3. /\ q \in Seq(Byte) /\ Len(q) = 1 + Len(enc[1]) /\ q[1] = RunMark /\ q # <<>>
        /\ EndsWith(q, 2, enc[1])
    <3> DEFINE e == enc[1]
    <3>1. e \in Seq(Byte) /\ q = <<RunMark>> \o e
        BY <2>1, <2>2
    <3> HIDE DEF e, q
    <3>2. /\ q \in Seq(Byte) /\ Len(q) = 1 + Len(e) /\ q[1] = RunMark /\ Len(e) \in Nat
          /\ \A k \in 1..Len(e) : q[1 + k] = e[k]
        BY <3>1, <1>1
    <3>3. q # <<>>
        BY <3>2
    <3>4. EndsWith(q, 2, e)
        BY <3>2 DEF EndsWith, Starts
    <3> QED BY <3>2, <3>3, <3>4 DEF e
  <2> HIDE DEF q
  <2>4. PICK dec : Decodes(q, dec) /\ ExpandItems(q) = dec[2]
      BY <2>3, ExpandDefined
  <2>5. expand_archived_metadata(q) = dec[2]
      BY <1>1, <2>3, <2>4 DEF expand_archived_metadata
  <2>6. CASE ~EndsInRun(p)
    <3> DEFINE L == N + 1
    <3>1. L \in 1..(Len(p) + 1) /\ \A i \in 1..(L - 1) : RunEnd(p, i) < L
      <4>1. \A i \in 1..N : RunEnd(p, i) \in i..N
          BY RunEndIs DEF IsRunEnd
      <4>2. L - 1 = N
          BY <1>1
      <4> QED BY <4>1, <4>2, <1>1
    <3>2. 1 \in 1..L /\ 2 \in Nat \ {0}
        BY <1>1
    <3>3. dec[2] = SubSeq(p, 1, L - 1) \o dec[Len(q) - Len(enc[L]) + 1]
      <4> HIDE DEF L
      <4>1. Decoded(p, enc, q, dec, L, 1, 2)
        <5>1. Encodes(p, enc) /\ Decodes(q, dec) /\ q \in Seq(Byte) /\ EndsWith(q, 2, enc[1])
            BY <2>1, <2>3, <2>4
        <5> QED BY <1>3, <2>6, <3>1, <3>2, <5>1, DecodesUpTo
      <4> QED BY <4>1 DEF Decoded
    <3>4. enc[L] = <<>> /\ Len(<<>>) = 0 /\ Len(q) \in Nat /\ dec[Len(q) + 1] = <<>>
        BY <2>1, <2>3, <2>4 DEF Encodes, Decodes
    <3>5. Len(q) - Len(enc[L]) + 1 = Len(q) + 1
      <4> HIDE DEF L
      <4> QED BY <3>4
    <3>6. SubSeq(p, 1, L - 1) = p
      <4>1. L - 1 = N
          BY <1>1
      <4> QED BY <4>1, <1>1
    <3>7. dec[2] = p \o <<>>
        BY <3>3, <3>4, <3>5, <3>6
    <3>8. dec[2] = p
        BY <3>7, ConcatEmptySeq
    <3> QED BY <2>5, <2>6, <3>8 DEF q
  <2>7. CASE EndsInRun(p)
    <3>1. PICK L \in 1..N : /\ RunEnd(p, L) = N /\ N - L + 1 >= 3
                            /\ \A i \in 1..(L - 1) : RunEnd(p, i) < L
        BY <2>7, LastRunStarts
    <3>2. L \in 1..(N + 1) /\ L <= N /\ 1 \in 1..L /\ 2 \in Nat \ {0} /\ L \in Nat
        BY <1>1
    <3> DEFINE X == Len(q) - Len(enc[L]) + 1  n == N - L + 1
    <3>3. /\ X \in 1..(Len(q) + 1) /\ EndsWith(q, X, enc[L])
          /\ dec[2] = SubSeq(p, 1, L - 1) \o dec[X]
      <4>1. Decoded(p, enc, q, dec, L, 1, 2)
        <5>1. Encodes(p, enc) /\ Decodes(q, dec) /\ q \in Seq(Byte) /\ EndsWith(q, 2, enc[1])
            BY <2>1, <2>3, <2>4
        <5>2. \A i \in 1..(L - 1) : RunEnd(p, i) < L
            BY <3>1
        <5> QED BY <1>3, <3>2, <5>1, <5>2, DecodesUpTo
      <4> QED BY <4>1 DEF Decoded
    <3>4. enc[L] = EncodeRun(p[L], n)
      <4>1. enc[L] = EncodeRun(p[L], n) \o enc[N + 1] /\ enc[N + 1] = <<>>
          BY <2>1, <3>1 DEF Encodes
      <4>2. n \in Nat /\ p[L] \in Byte
          BY <3>1, <1>1
      <4> HIDE DEF n
      <4>3. EncodeRun(p[L], n) \in Seq(Byte)
          BY <4>2, EncodedBytes
      <4> QED BY <4>1, <4>3, ConcatEmptySeq
    <3>5. n \in Nat /\ n >= 3 /\ p[L] \in Byte
        BY <3>1, <1>1
    <3> HIDE DEF n, X
    <3>6. Len(dec[X]) < n
      <4>1. X \in Nat \ {0} /\ EndsWith(q, X, EncodeRun(p[L], n))
          BY <3>3, <3>4
      <4> QED BY <4>1, <2>3, <2>4, <3>5, LastRunIsLost
    <3>7. dec[X] \in Seq(Byte)
        BY <2>4, <3>3 DEF Decodes
    <3>8. SubSeq(p, 1, L - 1) \in Seq(Byte) /\ Len(SubSeq(p, 1, L - 1)) = L - 1
      <4>1. 1 \in 1..(Len(p) + 1) /\ L - 1 \in (1 - 1)..Len(p)
          BY <3>2, <1>1
      <4>2. /\ SubSeq(p, 1, L - 1) \in Seq(Byte)
            /\ Len(SubSeq(p, 1, L - 1)) = (L - 1) - 1 + 1
          BY <4>1, SubSeqProperties
      <4> QED BY <4>2, <3>2
    <3>9. Len(dec[2]) = (L - 1) + Len(dec[X]) /\ Len(dec[X]) \in Nat
      <4> DEFINE u == SubSeq(p, 1, L - 1)  v == dec[X]
      <4>1. u \in Seq(Byte) /\ v \in Seq(Byte) /\ Len(u) = L - 1 /\ dec[2] = u \o v
          BY <3>3, <3>7, <3>8
      <4> HIDE DEF u, v
      <4> QED BY <4>1 DEF v
    <3>10. Len(dec[2]) < N
        BY <3>2, <3>6, <3>9, <1>1 DEF n
    <3>11. dec[2] # p
        BY <3>10, <1>1
    <3> QED BY <2>5, <2>7, <3>11 DEF q
  <2> QED BY <2>6, <2>7
<1> QED BY <1>2, <1>3 DEF RoundTrips

-----------------------------------------------------------------------------
(* The archive.                                                              *)

ArchiveFields ==
    DOMAIN archive = {"config", "cursor", "total", "order", "flags", "copies", "heads",
                      "metas", "refs", "compressed", "offchain"}

(* The ids of a set of positions, and the slots archive_events gives them.   *)
IdsOf(moved) == {order[i] : i \in moved}
Place(moved, i) == archive.total + Cardinality({k \in moved : k < i})
SlotsOf(moved) == {Place(moved, i) : i \in moved}
AddedSlots(moved) ==
    [k \in SlotsOf(moved) |-> order[CHOOSE i \in moved : Place(moved, i) = k]]

(* What archive_events leaves behind, field by field.                        *)
LEMMA MovedFields ==
    ASSUME ArchiveFields, NEW moved, NEW stop,
           archive' = [Move(moved) EXCEPT !.cursor = stop]
    PROVE  /\ ArchiveFields' /\ archive'.cursor = stop
           /\ archive'.flags = archive.flags \cup IdsOf(moved)
           /\ archive'.order = PutAll(archive.order, AddedSlots(moved))
           /\ archive'.total = archive.total + Cardinality(moved)
           /\ DOMAIN archive'.heads = DOMAIN archive.heads \cup IdsOf(moved)
           /\ DOMAIN archive'.copies =
                IF archive.config.offchain THEN DOMAIN archive.copies
                ELSE DOMAIN archive.copies \cup IdsOf(moved)
           /\ DOMAIN archive'.refs =
                IF archive.config.offchain THEN DOMAIN archive.refs \cup IdsOf(moved)
                ELSE DOMAIN archive.refs
           /\ archive'.offchain =
                IF archive.config.offchain THEN archive.offchain + Cardinality(moved)
                ELSE archive.offchain
<1>. DEFINE ids   == {order[i] : i \in moved}
            meta  == [id \in ids |-> StoredMetadata(data[id].metadata)]
            n     == Cardinality(moved)
            heads == PutAll(archive.heads, [id \in ids |-> HeaderOf(data[id])])
            metas == PutAll(archive.metas, meta)
            copies == IF archive.config.offchain THEN archive.copies
                      ELSE PutAll(archive.copies,
                                  [id \in ids |-> [data[id] EXCEPT !.metadata = meta[id]]])
            refs  == IF archive.config.offchain
                     THEN PutAll(archive.refs,
                            [id \in ids |-> [index |-> id.index,
                                             checksum |-> data[id].event_hash,
                                             archived_at |-> now]])
                     ELSE archive.refs
            packed == IF archive.config.compression = 1 THEN archive.compressed + n
                      ELSE archive.compressed
            off   == IF archive.config.offchain THEN archive.offchain + n ELSE archive.offchain
            slots == PutAll(archive.order, AddedSlots(moved))
<1>1. Move(moved) = [archive EXCEPT
                       !.flags = archive.flags \cup ids, !.order = slots,
                       !.total = archive.total + n, !.heads = heads, !.metas = metas,
                       !.copies = copies, !.refs = refs, !.compressed = packed,
                       !.offchain = off]
  BY DEF Move, AddedSlots, SlotsOf, Place
<1>2. ids = IdsOf(moved) BY DEF IdsOf
<1>3. DOMAIN heads = DOMAIN archive.heads \cup ids BY DEF PutAll
<1>4. DOMAIN copies = IF archive.config.offchain THEN DOMAIN archive.copies
                      ELSE DOMAIN archive.copies \cup ids
  BY DEF PutAll
<1>5. DOMAIN refs = IF archive.config.offchain THEN DOMAIN archive.refs \cup ids
                    ELSE DOMAIN archive.refs
  BY DEF PutAll
<1>. HIDE DEF ids, meta, heads, metas, copies, refs, packed, off, slots
<1>6. PICK m : m = Move(moved) OBVIOUS
<1>7. /\ DOMAIN m = DOMAIN archive
      /\ m.flags = archive.flags \cup ids /\ m.order = slots
      /\ m.total = archive.total + n /\ m.heads = heads
      /\ m.copies = copies /\ m.refs = refs /\ m.offchain = off
  BY <1>1, <1>6 DEF ArchiveFields
<1>8. /\ DOMAIN archive' = DOMAIN archive /\ archive'.cursor = stop
      /\ archive'.flags = m.flags /\ archive'.order = m.order /\ archive'.total = m.total
      /\ archive'.heads = m.heads /\ archive'.copies = m.copies /\ archive'.refs = m.refs
      /\ archive'.offchain = m.offchain
  BY <1>6, <1>7 DEF ArchiveFields
<1>. QED BY <1>2, <1>3, <1>4, <1>5, <1>7, <1>8 DEF ArchiveFields, slots, off

(* The scan of archive_events stops where ScanEnd says.                      *)
LEMMA ScanStops ==
    ASSUME StoreInv, NEW cutoff \in Nat, archive.cursor \in 0..rs.total
    PROVE  /\ ScanEnd(cutoff) \in archive.cursor..rs.total
           /\ \A k \in archive.cursor..(ScanEnd(cutoff) - 1) :
                order[k] \in archive.flags \/ EventAt(k).timestamp < cutoff
<1>. DEFINE Stops(i) == i = rs.total \/ (order[i] \notin archive.flags
                                         /\ EventAt(i).timestamp >= cutoff)
            T == {i \in archive.cursor..rs.total : Stops(i)}
<1>1. rs.total \in Nat /\ archive.cursor \in Nat /\ archive.cursor <= rs.total
      /\ DOMAIN order = 0..(rs.total - 1)
  BY DEF StoreInv, StoreTypeOK, StoreConsistent
<1>2. T \in SUBSET Nat /\ rs.total \in T BY <1>1
<1>3. PICK x \in T : \A y \in T : x <= y
  <2>. HIDE DEF T
  <2>. QED BY <1>2, LeastNumber
<1>4. ASSUME NEW k \in archive.cursor..(x - 1)
      PROVE  order[k] \in archive.flags \/ EventAt(k).timestamp < cutoff
  <2>1. k \in archive.cursor..rs.total /\ k \in DOMAIN order /\ ~(x <= k)
    BY <1>1, <1>3
  <2>2. ~Stops(k) BY <2>1, <1>3
  <2>3. EventAt(k).timestamp \in Nat BY <2>1, <1>1, EventAtType DEF StoreInv
  <2>. QED BY <2>2, <2>3
<1>5. x \in archive.cursor..rs.total /\ Stops(x) BY <1>3
<1>. QED BY <1>4, <1>5 DEF ScanEnd

(* Which positions a call of archive_events moves.                           *)
Moved(cutoff) ==
    {i \in archive.cursor..(ScanEnd(cutoff) - 1) : order[i] \notin archive.flags}

(* What the calls of the archive do.                                         *)
LEMMA ArchiveMove ==
    ASSUME ArchiveFields, ArchiveCalls
    PROVE  \/ \E config \in ArchiveConfig : archive' = [archive EXCEPT !.config = config]
           \/ \E cutoff \in Nat :
                archive' = [Move(Moved(cutoff)) EXCEPT !.cursor = ScanEnd(cutoff)]
           \/ archive' = archive
           \/ \E cutoff \in Nat :
                LET ids == {archive.order[k] : k \in Purged(cutoff)}
                IN  archive' = [archive EXCEPT !.order = Without(@, Purged(cutoff)),
                                               !.copies = Without(@, ids),
                                               !.heads = Without(@, ids),
                                               !.metas = Without(@, ids)]
<1>1. \A x \in Cutoff : x \in Nat BY BoundsAssumption DEF Cutoff
<1>2. ASSUME NEW c, NEW config \in ArchiveConfig, set_archive_config(c, config)
      PROVE  archive' = [archive EXCEPT !.config = config]
  BY <1>2 DEF set_archive_config
<1>3. ASSUME NEW c, NEW cutoff, archive_events(c, cutoff)
      PROVE  archive' = [Move(Moved(cutoff)) EXCEPT !.cursor = ScanEnd(cutoff)]
  BY <1>3 DEF archive_events, Moved
<1>4. ASSUME NEW c, NEW cutoff, NEW confirm, purge_archived_events(c, cutoff, confirm)
      PROVE  \/ archive' = archive
             \/ LET ids == {archive.order[k] : k \in Purged(cutoff)}
                IN  archive' = [archive EXCEPT !.order = Without(@, Purged(cutoff)),
                                               !.copies = Without(@, ids),
                                               !.heads = Without(@, ids),
                                               !.metas = Without(@, ids)]
  BY <1>4 DEF purge_archived_events
<1>. QED BY <1>1, <1>2, <1>3, <1>4, Zenon DEF ArchiveCalls

(* What purging leaves behind.                                               *)
LEMMA PurgedFields ==
    ASSUME ArchiveFields, NEW slots, NEW ids,
           archive' = [archive EXCEPT !.order = Without(@, slots),
                                      !.copies = Without(@, ids),
                                      !.heads = Without(@, ids),
                                      !.metas = Without(@, ids)]
    PROVE  /\ ArchiveFields' /\ archive'.order = Without(archive.order, slots)
           /\ DOMAIN archive'.copies = DOMAIN archive.copies \ ids
           /\ DOMAIN archive'.heads = DOMAIN archive.heads \ ids
           /\ archive'.flags = archive.flags /\ archive'.cursor = archive.cursor
           /\ archive'.total = archive.total /\ archive'.refs = archive.refs
           /\ archive'.offchain = archive.offchain
<1>1. PICK o : o = Without(archive.order, slots) OBVIOUS
<1>2. PICK p : p = Without(archive.copies, ids) OBVIOUS
<1>3. PICK q : q = Without(archive.heads, ids) OBVIOUS
<1>4. PICK m : m = Without(archive.metas, ids) OBVIOUS
<1>5. archive' = [archive EXCEPT !.order = o, !.copies = p, !.heads = q, !.metas = m]
  BY <1>1, <1>2, <1>3, <1>4
<1>6. /\ DOMAIN archive' = DOMAIN archive /\ archive'.order = o /\ archive'.copies = p
      /\ archive'.heads = q /\ archive'.flags = archive.flags
      /\ archive'.cursor = archive.cursor /\ archive'.total = archive.total
      /\ archive'.refs = archive.refs /\ archive'.offchain = archive.offchain
  BY <1>5 DEF ArchiveFields
<1>7. DOMAIN p = DOMAIN archive.copies \ ids /\ DOMAIN q = DOMAIN archive.heads \ ids
  BY <1>2, <1>3 DEF Without
<1>. QED BY <1>1, <1>6, <1>7 DEF ArchiveFields

(* What setting the configuration leaves behind: everything else.            *)
LEMMA ConfiguredFields ==
    ASSUME ArchiveFields, NEW config, archive' = [archive EXCEPT !.config = config]
    PROVE  /\ ArchiveFields' /\ archive'.order = archive.order
           /\ archive'.copies = archive.copies /\ archive'.heads = archive.heads
           /\ archive'.flags = archive.flags /\ archive'.cursor = archive.cursor
           /\ archive'.total = archive.total /\ archive'.refs = archive.refs
           /\ archive'.offchain = archive.offchain
BY DEF ArchiveFields

(* The log does not shrink, and an event without versions keeps its id.      *)
LEMMA StepKeepsOriginals ==
    ASSUME StoreInv, Step \/ Redaction
    PROVE  /\ rs.total <= rs'.total
           /\ \A i \in DOMAIN order : i \notin DOMAIN versions' =>
                 i \notin DOMAIN versions /\ order'[i] = order[i]
<1>0. rs.total \in Nat /\ DOMAIN order = 0..(rs.total - 1)
  BY DEF StoreInv, StoreTypeOK, StoreConsistent
<1>1. CASE Quiet BY <1>0, <1>1 DEF Quiet
<1>2. CASE \E n \in Nat : Grows(n)
  <2>1. PICK n \in Nat : Grows(n) BY <1>2
  <2>2. rs' = [rs EXCEPT !.total = n] /\ rs.total <= n BY <2>1 DEF Grows
  <2>3. rs \in [max : Nat, total : Nat, paused : BOOLEAN] BY DEF StoreInv, StoreTypeOK
  <2>4. rs'.total = n BY <2>2, <2>3
  <2>5. \A i \in DOMAIN order : order'[i] = order[i] /\ versions' = versions
    BY <1>0, <2>1 DEF Grows, OldKept
  <2>. QED BY <2>2, <2>4, <2>5
<1>3. CASE Amendment
  <2>1. PICK c, k, e, h : Amends(c, k, e, h) BY <1>3 DEF Amendment
  <2>2. rs' = rs BY <1>3 DEF Amendment, AmendFrame
  <2>3. DOMAIN versions' = DOMAIN versions \cup {k}
    <3>1. \E hist : versions' = Put(versions, k, hist) BY <2>1, AmendedHistory
    <3>. QED BY <3>1 DEF Put
  <2>4. \A i \in DOMAIN order : i # k => order'[i] = order[i] BY <2>1, AmendedLog
  <2>. QED BY <1>0, <2>2, <2>3, <2>4
<1>4. CASE Redaction BY <1>0, <1>4 DEF Redaction, AmendFrame, Redacts
<1>. QED BY <1>1, <1>2, <1>3, <1>4 DEF Step

(* The cursor stays within the log and behind it everything is archived.     *)
CursorKept ==
    /\ ArchiveFields
    /\ archive.cursor \in 0..rs.total
    /\ CursorSkipsNothing

(* Every step keeps the cursor sound.                                        *)
LEMMA StepKeepsCursor ==
    ASSUME ManagedInv, CursorKept, [ManagedNext]_managedVars
    PROVE  CursorKept'
<1>. USE DEF ManagedInv
<1>0. /\ rs.total \in Nat /\ archive.cursor \in Nat /\ archive.cursor <= rs.total
      /\ DOMAIN order = 0..(rs.total - 1)
  BY DEF StoreInv, StoreTypeOK, StoreConsistent, CursorKept
<1>1. ASSUME ArchiveFields', archive'.cursor = archive.cursor, archive'.flags = archive.flags
      PROVE  CursorKept'
  <2>1. Step \/ Redaction BY ManagedStep
  <2>2. /\ rs.total <= rs'.total
        /\ \A i \in DOMAIN order : i \notin DOMAIN versions' =>
              i \notin DOMAIN versions /\ order'[i] = order[i]
    BY <2>1, StepKeepsOriginals
  <2>3. rs'.total \in Nat BY ManagedStepKeepsInv DEF StoreInv, StoreTypeOK
  <2>4. \A i \in 0..(archive.cursor - 1) : i \in DOMAIN order BY <1>0
  <2>5. CursorSkipsNothing' BY <1>1, <2>2, <2>4 DEF CursorKept, CursorSkipsNothing
  <2>. QED BY <1>0, <1>1, <2>2, <2>3, <2>5 DEF CursorKept
<1>2. CASE archive' = archive BY <1>1, <1>2 DEF CursorKept, ArchiveFields
<1>3. CASE ArchiveCalls
  <2>0. UNCHANGED vars BY <1>3, OtherCallsAreStill
  <2>1. ASSUME NEW cutoff \in Nat,
               archive' = [Move(Moved(cutoff)) EXCEPT !.cursor = ScanEnd(cutoff)]
        PROVE  CursorKept'
    <3>1. PICK stop : stop = ScanEnd(cutoff) OBVIOUS
    <3>2. stop \in archive.cursor..rs.total BY <3>1, <1>0, ScanStops
    <3>3. /\ ArchiveFields' /\ archive'.cursor = stop
          /\ archive'.flags = archive.flags \cup IdsOf(Moved(cutoff))
      BY <2>1, <3>1, MovedFields DEF CursorKept
    <3>4. ASSUME NEW i \in 0..(stop - 1)
          PROVE  /\ \E id \in archive'.flags : id.index = i
                 /\ i \notin DOMAIN versions => order[i] \in archive'.flags
      <4>1. CASE i < archive.cursor
        <5>1. i \in 0..(archive.cursor - 1) BY <4>1, <1>0
        <5>. QED BY <5>1, <3>3 DEF CursorKept, CursorSkipsNothing
      <4>2. CASE ~(i < archive.cursor)
        <5>1. i \in archive.cursor..(stop - 1) /\ i \in DOMAIN order BY <4>2, <3>2, <1>0
        <5>2. order[i] \in archive'.flags BY <5>1, <3>1, <3>3 DEF Moved, IdsOf
        <5>3. order[i].index = i BY <5>1 DEF StoreInv, StoreConsistent, Addresses
        <5>. QED BY <5>2, <5>3
      <4>. QED BY <4>1, <4>2
    <3>5. UNCHANGED <<order, versions, rs>> BY <2>0 DEF vars, logVars, histVars
    <3>6. CursorSkipsNothing' BY <3>3, <3>4, <3>5 DEF CursorSkipsNothing
    <3>. QED BY <3>2, <3>3, <3>5, <3>6, <1>0 DEF CursorKept
  <2>2. ASSUME NEW config, archive' = [archive EXCEPT !.config = config] PROVE CursorKept'
    BY <2>2, <1>1, ConfiguredFields DEF CursorKept
  <2>3. ASSUME NEW slots, NEW ids,
               archive' = [archive EXCEPT !.order = Without(@, slots),
                                          !.copies = Without(@, ids),
                                          !.heads = Without(@, ids),
                                          !.metas = Without(@, ids)]
        PROVE  CursorKept'
    BY <2>3, <1>1, PurgedFields DEF CursorKept
  <2>. QED BY <1>2, <1>3, <2>1, <2>2, <2>3, ArchiveMove DEF CursorKept
<1>. QED BY <1>2, <1>3 DEF ManagedNext, CoreCalls, managedVars

(* archive_events never leaves an event behind its cursor unarchived.        *)
THEOREM CursorNeverSkips == ManagedSpec => []CursorSkipsNothing
<1>1. ManagedInit => CursorKept
  <2>1. SUFFICES ASSUME ManagedInit PROVE CursorKept OBVIOUS
  <2>2. rs.total \in Nat
    BY <2>1, InitStore DEF ManagedInit, StoreInv, StoreTypeOK
  <2>3. ArchiveFields /\ archive.cursor = 0
    BY <2>1 DEF ManagedInit, ArchiveInit, ArchiveFields
  <2>. QED BY <2>2, <2>3 DEF CursorKept, CursorSkipsNothing
<1>2. ManagedInv /\ CursorKept /\ [ManagedNext]_managedVars => CursorKept'
  BY StepKeepsCursor
<1>3. CursorKept => CursorSkipsNothing BY DEF CursorKept
<1>. QED BY <1>1, <1>2, <1>3, ManagedInvariant, PTL DEF ManagedSpec

(* As many ids as positions, when the ids name their positions.              *)
LEMMA IdsCounted ==
    ASSUME NEW S, IsFiniteSet(S), \A i \in S : order[i].index = i
    PROVE  IsFiniteSet(IdsOf(S)) /\ Cardinality(IdsOf(S)) = Cardinality(S)
<1>. DEFINE T == IdsOf(S)
            f == [i \in S |-> order[i]]
<1>1. f \in [S -> T] BY DEF IdsOf
<1>2. \A i, j \in S : f[i] = f[j] => i = j OBVIOUS
<1>3. \A id \in T : \E i \in S : f[i] = id BY DEF IdsOf
<1>4. f \in Bijection(S, T)
  <2>. HIDE DEF f, T
  <2>. QED BY <1>1, <1>2, <1>3 DEF Bijection, Injection, Surjection, IsInjective
<1>5. ExistsBijection(S, T) BY <1>4 DEF ExistsBijection
<1>. HIDE DEF T
<1>6. IsFiniteSet(T) /\ Cardinality(T) = Cardinality(S) BY <1>5, FS_Bijection
<1>. QED BY <1>6 DEF T

(* Disjoint finite sets add up.                                              *)
LEMMA DisjointCounts ==
    ASSUME NEW S, NEW T, IsFiniteSet(S), IsFiniteSet(T), S \cap T = {}
    PROVE  /\ IsFiniteSet(S \cup T)
           /\ Cardinality(S \cup T) = Cardinality(S) + Cardinality(T)
           /\ Cardinality(S) \in Nat /\ Cardinality(T) \in Nat
<1>1. /\ IsFiniteSet(S \cup T)
      /\ Cardinality(S \cup T) = Cardinality(S) + Cardinality(T) - Cardinality(S \cap T)
  BY FS_Union
<1>2. Cardinality(S \cap T) = 0 BY FS_EmptySet
<1>3. Cardinality(S) \in Nat /\ Cardinality(T) \in Nat BY FS_CardinalityType
<1>. QED BY <1>1, <1>2, <1>3

(* The positions archive_events moves get distinct slots, numbered on from   *)
(* the total and within the new one.                                         *)
LEMMA PlacesDiffer ==
    ASSUME NEW S \in SUBSET Nat, IsFiniteSet(S), archive.total \in Nat
    PROVE  /\ \A i \in S : Place(S, i) \in archive.total..(archive.total + Cardinality(S) - 1)
           /\ \A i, j \in S : Place(S, i) = Place(S, j) => i = j
<1>. DEFINE Below(i) == {k \in S : k < i}
            rank(i) == Cardinality(Below(i))
<1>1. ASSUME NEW i \in S PROVE rank(i) \in Nat /\ rank(i) < Cardinality(S)
  <2>1. Below(i) \in SUBSET S /\ i \notin Below(i) BY i \in Nat
  <2>. HIDE DEF Below
  <2>2. /\ IsFiniteSet(Below(i)) /\ rank(i) <= Cardinality(S)
        /\ Cardinality(S) = rank(i) => S = Below(i)
    BY <2>1, FS_Subset
  <2>3. rank(i) \in Nat /\ Cardinality(S) \in Nat BY <2>2, FS_CardinalityType
  <2>4. Cardinality(S) # rank(i) BY <2>1, <2>2
  <2>. HIDE DEF rank
  <2>. QED BY <2>2, <2>3, <2>4
<1>2. ASSUME NEW i \in S, NEW j \in S, i < j PROVE rank(i) < rank(j)
  <2>0. \A k \in S : k \in Nat OBVIOUS
  <2>1. Below(i) \in SUBSET Below(j) /\ i \in Below(j) /\ i \notin Below(i)
    <3>1. \A k \in Below(i) : k \in Below(j) BY <1>2, <2>0
    <3>2. i \in Below(j) /\ i \notin Below(i) BY <1>2, <2>0
    <3>. HIDE DEF Below
    <3>. QED BY <3>1, <3>2
  <2>2. Below(j) \in SUBSET S OBVIOUS
  <2>. HIDE DEF Below
  <2>3. IsFiniteSet(Below(j)) BY <2>2, FS_Subset
  <2>4. rank(i) <= rank(j) /\ (rank(j) = rank(i) => Below(j) = Below(i))
    BY <2>1, <2>3, FS_Subset
  <2>5. rank(i) # rank(j) BY <2>1, <2>4
  <2>6. rank(i) \in Nat /\ rank(j) \in Nat BY <1>1
  <2>. HIDE DEF rank
  <2>. QED BY <2>4, <2>5, <2>6
<1>3. \A i : Place(S, i) = archive.total + rank(i) BY DEF Place
<1>4. Cardinality(S) \in Nat BY FS_CardinalityType
<1>. HIDE DEF rank
<1>5. \A i \in S : Place(S, i) \in archive.total..(archive.total + Cardinality(S) - 1)
  <2>1. ASSUME NEW i \in S
        PROVE  Place(S, i) \in archive.total..(archive.total + Cardinality(S) - 1)
    <3>1. PICK r \in Nat : r = rank(i) BY <1>1
    <3>2. PICK n \in Nat : n = Cardinality(S) BY <1>4
    <3>3. r < n /\ Place(S, i) = archive.total + r BY <1>1, <1>3, <3>1, <3>2
    <3>. QED BY <3>2, <3>3
  <2>. QED BY <2>1
<1>6. ASSUME NEW i \in S, NEW j \in S, Place(S, i) = Place(S, j) PROVE i = j
  <2>1. rank(i) = rank(j) BY <1>6, <1>1, <1>3
  <2>2. ~(i < j) /\ ~(j < i) BY <1>1, <1>2, <2>1
  <2>. QED BY <2>2, i \in Nat, j \in Nat
<1>. QED BY <1>5, <1>6

(* What the books record: one slot for every id that has a copy or a         *)
(* reference, all of them flagged and with a header, and the totals.         *)
BooksKept ==
    /\ ArchiveFields
    /\ archive.cursor \in 0..rs.total
    /\ IsFiniteSet(archive.flags)
    /\ archive.total = Cardinality(archive.flags)
    /\ DOMAIN archive.order \subseteq 0..(archive.total - 1)
    /\ \A j, k \in DOMAIN archive.order :
          archive.order[j] = archive.order[k] => j = k
    /\ {archive.order[k] : k \in DOMAIN archive.order}
          = DOMAIN archive.copies \cup DOMAIN archive.refs
    /\ DOMAIN archive.copies \cap DOMAIN archive.refs = {}
    /\ DOMAIN archive.copies \cup DOMAIN archive.refs \subseteq archive.flags
    /\ DOMAIN archive.copies \cup DOMAIN archive.refs \subseteq DOMAIN archive.heads
    /\ archive.offchain = Cardinality(DOMAIN archive.refs)

(* The slots archive_events adds keep the order one to one.                  *)
LEMMA AddedSlotsAreNew ==
    ASSUME BooksKept, NEW S \in SUBSET Nat, IsFiniteSet(S),
           \A i \in S : order[i].index = i, IdsOf(S) \cap archive.flags = {}
    PROVE  LET o == PutAll(archive.order, AddedSlots(S))
           IN  /\ DOMAIN o \subseteq 0..(archive.total + Cardinality(S) - 1)
               /\ \A j, k \in DOMAIN o : o[j] = o[k] => j = k
               /\ {o[k] : k \in DOMAIN o}
                    = {archive.order[k] : k \in DOMAIN archive.order} \cup IdsOf(S)
<1>. DEFINE old == archive.order
            D == SlotsOf(S)
            g == AddedSlots(S)
            o == PutAll(old, g)
<1>1. PICK n \in Nat : n = Cardinality(S) BY FS_CardinalityType
<1>2. PICK t \in Nat : t = archive.total BY FS_CardinalityType DEF BooksKept
<1>3. /\ \A i \in S : Place(S, i) \in t..(t + n - 1)
      /\ \A i, j \in S : Place(S, i) = Place(S, j) => i = j
  BY <1>1, <1>2, PlacesDiffer
<1>4. DOMAIN old \subseteq 0..(t - 1) BY <1>2 DEF BooksKept
<1>5. DOMAIN g = D BY DEF AddedSlots
<1>6. \A i \in S : Place(S, i) \in D /\ g[Place(S, i)] = order[i]
  <2>1. ASSUME NEW i \in S PROVE Place(S, i) \in D /\ g[Place(S, i)] = order[i]
    <3>1. PICK p : p = Place(S, i) OBVIOUS
    <3>2. p \in D BY <3>1 DEF SlotsOf
    <3>3. (CHOOSE j \in S : Place(S, j) = p) = i BY <3>1, <1>3
    <3>4. g[p] = order[CHOOSE j \in S : Place(S, j) = p] BY <3>2 DEF AddedSlots
    <3>. QED BY <3>1, <3>2, <3>3, <3>4
  <2>. QED BY <2>1
<1>7. \A k \in D : \E i \in S : k = Place(S, i) BY DEF SlotsOf
<1>8. /\ DOMAIN o = DOMAIN old \cup D
      /\ \A k \in D : o[k] = g[k]
      /\ \A k \in DOMAIN old : k \notin D => o[k] = old[k]
  BY <1>5 DEF PutAll
<1>. HIDE DEF D, g, o
<1>9. \A k \in D : k \in t..(t + n - 1) BY <1>3, <1>7
<1>10. \A k \in DOMAIN old : k \notin D BY <1>4, <1>9
<1>11. \A k \in D : \E i \in S : k = Place(S, i) /\ o[k] = order[i] BY <1>6, <1>7, <1>8
<1>12. \A k \in D : o[k] \in IdsOf(S) BY <1>11 DEF IdsOf
<1>13. \A k \in DOMAIN old : o[k] = old[k] /\ old[k] \in archive.flags
  BY <1>8, <1>10 DEF BooksKept
<1>14. DOMAIN o \subseteq 0..(t + n - 1)
  <2>1. \A k \in DOMAIN o : k \in 0..(t - 1) \/ k \in t..(t + n - 1) BY <1>4, <1>8, <1>9
  <2>. QED BY <2>1
<1>15. ASSUME NEW j \in DOMAIN o, NEW k \in DOMAIN o, o[j] = o[k] PROVE j = k
  <2>1. CASE j \in D /\ k \in D
    <3>1. PICK a \in S : j = Place(S, a) /\ o[j] = order[a] BY <2>1, <1>11
    <3>2. PICK b \in S : k = Place(S, b) /\ o[k] = order[b] BY <2>1, <1>11
    <3>3. a = b BY <3>1, <3>2, <1>15
    <3>. QED BY <3>1, <3>2, <3>3
  <2>2. CASE j \in DOMAIN old /\ k \in DOMAIN old BY <2>2, <1>13, <1>15 DEF BooksKept
  <2>3. ~(j \in D /\ k \in DOMAIN old) /\ ~(k \in D /\ j \in DOMAIN old)
    BY <1>12, <1>13, <1>15
  <2>. QED BY <2>1, <2>2, <2>3, <1>8
<1>16. {o[k] : k \in DOMAIN o} = {old[k] : k \in DOMAIN old} \cup IdsOf(S)
  <2>1. \A id \in IdsOf(S) : \E k \in D : o[k] = id
    <3>1. ASSUME NEW id \in IdsOf(S) PROVE \E k \in D : o[k] = id
      <4>1. PICK i \in S : id = order[i] BY DEF IdsOf
      <4>2. Place(S, i) \in D /\ o[Place(S, i)] = order[i] BY <1>6, <1>8
      <4>. QED BY <4>1, <4>2
    <3>. QED BY <3>1
  <2>. QED BY <2>1, <1>8, <1>12, <1>13
<1>. QED BY <1>1, <1>2, <1>14, <1>15, <1>16 DEF o, g

(* What archiving the positions S does to the books.                         *)
LEMMA MoveKeepsBooks ==
    ASSUME BooksKept, NEW S \in SUBSET Nat, IsFiniteSet(S),
           \A i \in S : order[i].index = i /\ order[i] \notin archive.flags,
           NEW stop \in 0..rs'.total,
           archive' = [Move(S) EXCEPT !.cursor = stop]
    PROVE  BooksKept'
<1>. DEFINE ids == IdsOf(S)
<1>1. /\ ArchiveFields' /\ archive'.cursor = stop
      /\ archive'.flags = archive.flags \cup ids
      /\ archive'.order = PutAll(archive.order, AddedSlots(S))
      /\ archive'.total = archive.total + Cardinality(S)
      /\ DOMAIN archive'.heads = DOMAIN archive.heads \cup ids
      /\ DOMAIN archive'.copies =
           IF archive.config.offchain THEN DOMAIN archive.copies
           ELSE DOMAIN archive.copies \cup ids
      /\ DOMAIN archive'.refs =
           IF archive.config.offchain THEN DOMAIN archive.refs \cup ids
           ELSE DOMAIN archive.refs
      /\ archive'.offchain =
           IF archive.config.offchain THEN archive.offchain + Cardinality(S)
           ELSE archive.offchain
  BY MovedFields DEF BooksKept
<1>2. ids \cap archive.flags = {} BY DEF IdsOf
<1>3. IsFiniteSet(ids) /\ Cardinality(ids) = Cardinality(S) BY IdsCounted
<1>4. LET o == PutAll(archive.order, AddedSlots(S))
      IN  /\ DOMAIN o \subseteq 0..(archive.total + Cardinality(S) - 1)
          /\ \A j, k \in DOMAIN o : o[j] = o[k] => j = k
          /\ {o[k] : k \in DOMAIN o}
               = {archive.order[k] : k \in DOMAIN archive.order} \cup ids
  BY <1>2, AddedSlotsAreNew, Zenon
<1>. HIDE DEF ids
<1>5. PICK o : o = archive'.order OBVIOUS
<1>6. /\ DOMAIN o \subseteq 0..(archive.total + Cardinality(S) - 1)
      /\ \A j, k \in DOMAIN o : o[j] = o[k] => j = k
      /\ {o[k] : k \in DOMAIN o} = DOMAIN archive.copies \cup DOMAIN archive.refs \cup ids
  BY <1>1, <1>4, <1>5, SMTT(30) DEF BooksKept
<1>7. /\ IsFiniteSet(archive'.flags)
      /\ Cardinality(archive'.flags) = archive.total + Cardinality(S)
  <2>1. archive.flags \cap ids = {} BY <1>2
  <2>. QED BY <2>1, <1>1, <1>3, DisjointCounts DEF BooksKept
<1>8. archive.total \in Nat /\ Cardinality(S) \in Nat BY FS_CardinalityType DEF BooksKept
<1>9. /\ DOMAIN o \subseteq 0..(archive'.total - 1)
      /\ archive'.total = Cardinality(archive'.flags)
  BY <1>1, <1>6, <1>7, <1>8
<1>10. DOMAIN archive.refs \cap ids = {} BY <1>2 DEF BooksKept
<1>11. /\ DOMAIN archive'.copies \cup DOMAIN archive'.refs
            = DOMAIN archive.copies \cup DOMAIN archive.refs \cup ids
       /\ DOMAIN archive'.copies \cap DOMAIN archive'.refs = {}
  BY <1>1, <1>2 DEF BooksKept
<1>12. archive'.offchain = Cardinality(DOMAIN archive'.refs)
  <2>1. IsFiniteSet(DOMAIN archive.refs)
    <3>1. DOMAIN archive.refs \in SUBSET archive.flags BY DEF BooksKept
    <3>. QED BY <3>1, FS_Subset DEF BooksKept
  <2>2. Cardinality(DOMAIN archive.refs \cup ids)
          = Cardinality(DOMAIN archive.refs) + Cardinality(ids)
    BY <2>1, <1>3, <1>10, DisjointCounts
  <2>. QED BY <2>2, <1>1, <1>3 DEF BooksKept
<1>13. /\ DOMAIN archive'.copies \cup DOMAIN archive'.refs \subseteq archive'.flags
       /\ DOMAIN archive'.copies \cup DOMAIN archive'.refs \subseteq DOMAIN archive'.heads
  BY <1>1, <1>11 DEF BooksKept
<1>. QED BY <1>1, <1>5, <1>6, <1>7, <1>9, <1>11, <1>12, <1>13 DEF BooksKept

(* Purging drops slots together with the copies they name.                   *)
LEMMA PurgeKeepsBooks ==
    ASSUME BooksKept, NEW cutoff, NEW ids, ids = {archive.order[k] : k \in Purged(cutoff)},
           archive.cursor \in 0..rs'.total,
           archive' = [archive EXCEPT !.order = Without(@, Purged(cutoff)),
                                      !.copies = Without(@, ids),
                                      !.heads = Without(@, ids),
                                      !.metas = Without(@, ids)]
    PROVE  BooksKept'
<1>. DEFINE slots == Purged(cutoff)
<1>1. /\ ArchiveFields' /\ archive'.order = Without(archive.order, slots)
      /\ DOMAIN archive'.copies = DOMAIN archive.copies \ ids
      /\ DOMAIN archive'.heads = DOMAIN archive.heads \ ids
      /\ archive'.flags = archive.flags /\ archive'.cursor = archive.cursor
      /\ archive'.total = archive.total /\ archive'.refs = archive.refs
      /\ archive'.offchain = archive.offchain
  BY PurgedFields DEF BooksKept
<1>2. slots \subseteq DOMAIN archive.order /\ ids \subseteq DOMAIN archive.copies
  BY DEF Purged
<1>3. \A id : id \in ids <=> \E k \in slots : id = archive.order[k] OBVIOUS
<1>. HIDE DEF slots
<1>4. PICK o : o = archive'.order OBVIOUS
<1>5. DOMAIN o = DOMAIN archive.order \ slots /\ \A k \in DOMAIN o : o[k] = archive.order[k]
  BY <1>1, <1>4 DEF Without
<1>6. {o[k] : k \in DOMAIN o} = DOMAIN archive'.copies \cup DOMAIN archive'.refs
  <2>1. \A k \in DOMAIN o : o[k] \notin ids BY <1>2, <1>3, <1>5 DEF BooksKept
  <2>2. \A id : (\E k \in DOMAIN archive.order : id = archive.order[k])
                  <=> id \in DOMAIN archive.copies \cup DOMAIN archive.refs
    BY DEF BooksKept
  <2>3. \A id : (\E k \in DOMAIN o : id = o[k])
                  <=> id \in (DOMAIN archive.copies \cup DOMAIN archive.refs) \ ids
    BY <2>1, <2>2, <1>3, <1>5
  <2>4. (DOMAIN archive.copies \cup DOMAIN archive.refs) \ ids
          = DOMAIN archive'.copies \cup DOMAIN archive'.refs
    BY <1>1, <1>2 DEF BooksKept
  <2>. QED BY <2>3, <2>4
<1>7. \A j, k \in DOMAIN o : o[j] = o[k] => j = k BY <1>5 DEF BooksKept
<1>8. DOMAIN o \subseteq 0..(archive'.total - 1) BY <1>1, <1>5 DEF BooksKept
<1>9. DOMAIN archive'.copies \cap DOMAIN archive'.refs = {} BY <1>1 DEF BooksKept
<1>10. /\ DOMAIN archive'.copies \cup DOMAIN archive'.refs \subseteq archive'.flags
       /\ DOMAIN archive'.copies \cup DOMAIN archive'.refs \subseteq DOMAIN archive'.heads
  BY <1>1, <1>2 DEF BooksKept
<1>11. /\ archive'.cursor \in 0..rs'.total /\ IsFiniteSet(archive'.flags)
       /\ archive'.total = Cardinality(archive'.flags)
       /\ archive'.offchain = Cardinality(DOMAIN archive'.refs)
  BY <1>1 DEF BooksKept
<1>. QED BY <1>1, <1>4, <1>6, <1>7, <1>8, <1>9, <1>10, <1>11 DEF BooksKept

(* Every step keeps the books.                                               *)
LEMMA StepKeepsBooks ==
    ASSUME ManagedInv, BooksKept, [ManagedNext]_managedVars
    PROVE  BooksKept'
<1>. USE DEF ManagedInv
<1>0. /\ rs.total \in Nat /\ archive.cursor \in Nat /\ archive.cursor <= rs.total
      /\ DOMAIN order = 0..(rs.total - 1)
  BY DEF StoreInv, StoreTypeOK, StoreConsistent, BooksKept
<1>1. rs'.total \in Nat /\ rs.total <= rs'.total
  <2>1. Step \/ Redaction BY ManagedStep
  <2>. QED BY <2>1, StepKeepsOriginals, ManagedStepKeepsInv DEF StoreInv, StoreTypeOK
<1>2. archive.cursor \in 0..rs'.total BY <1>0, <1>1
<1>3. CASE archive' = archive BY <1>2, <1>3 DEF BooksKept, ArchiveFields
<1>4. CASE ArchiveCalls
  <2>1. ASSUME NEW cutoff \in Nat,
               archive' = [Move(Moved(cutoff)) EXCEPT !.cursor = ScanEnd(cutoff)]
        PROVE  BooksKept'
    <3>1. PICK stop : stop = ScanEnd(cutoff) OBVIOUS
    <3>2. stop \in archive.cursor..rs.total BY <3>1, <1>0, ScanStops
    <3>3. PICK S : S = Moved(cutoff) OBVIOUS
    <3>4. S \subseteq archive.cursor..(stop - 1) BY <3>1, <3>3 DEF Moved
    <3>5. S \in SUBSET Nat /\ S \subseteq DOMAIN order BY <3>2, <3>4, <1>0
    <3>6. IsFiniteSet(S)
      <4>1. PICK a \in Int, b \in Int : a = archive.cursor /\ b = stop - 1 BY <3>2, <1>0
      <4>2. IsFiniteSet(a..b) BY FS_Interval
      <4>3. S \in SUBSET (a..b) BY <4>1, <3>4
      <4>. QED BY <4>2, <4>3, FS_Subset
    <3>7. \A i \in S : order[i].index = i BY <3>5 DEF StoreInv, StoreConsistent, Addresses
    <3>8. \A i \in S : order[i] \notin archive.flags BY <3>3 DEF Moved
    <3>9. stop \in 0..rs'.total BY <3>2, <1>0, <1>1
    <3>. QED BY <2>1, <3>1, <3>3, <3>5, <3>6, <3>7, <3>8, <3>9, MoveKeepsBooks
  <2>2. ASSUME NEW config, archive' = [archive EXCEPT !.config = config] PROVE BooksKept'
    <3>1. /\ ArchiveFields' /\ archive'.order = archive.order
          /\ archive'.copies = archive.copies /\ archive'.heads = archive.heads
          /\ archive'.flags = archive.flags /\ archive'.cursor = archive.cursor
          /\ archive'.total = archive.total /\ archive'.refs = archive.refs
          /\ archive'.offchain = archive.offchain
      BY <2>2, ConfiguredFields DEF BooksKept
    <3>. QED BY <3>1, <1>2 DEF BooksKept
  <2>3. ASSUME NEW cutoff \in Nat,
               LET ids == {archive.order[k] : k \in Purged(cutoff)}
               IN  archive' = [archive EXCEPT !.order = Without(@, Purged(cutoff)),
                                              !.copies = Without(@, ids),
                                              !.heads = Without(@, ids),
                                              !.metas = Without(@, ids)]
        PROVE  BooksKept'
    <3>1. PICK ids : ids = {archive.order[k] : k \in Purged(cutoff)} OBVIOUS
    <3>. QED BY <2>3, <3>1, <1>2, PurgeKeepsBooks
  <2>4. ArchiveFields BY DEF BooksKept
  <2>. QED BY <1>3, <1>4, <2>1, <2>2, <2>3, <2>4, ArchiveMove
<1>. QED BY <1>3, <1>4 DEF ManagedNext, CoreCalls, managedVars

(* The balance follows from what the books record.                           *)
LEMMA KeptBooksBalance ==
    ASSUME BooksKept
    PROVE  ArchiveBooksBalance
<1>. DEFINE D == DOMAIN archive.order
<1>1. PICK t \in Nat : t = archive.total BY FS_CardinalityType DEF BooksKept
<1>2. \A k \in D : archive.order[k] \in DOMAIN archive.copies \cup DOMAIN archive.refs
  BY DEF BooksKept
<1>3. get_archived_event_count = Cardinality(D)
  <2>1. {k \in DOMAIN archive.order :
           archive.order[k] \in DOMAIN archive.copies \cup DOMAIN archive.refs} = D
    BY <1>2
  <2>. QED BY <2>1 DEF get_archived_event_count
<1>4. {k \in DOMAIN archive.order :
         k >= 0 /\ archive.order[k] \in DOMAIN archive.heads} = D
  BY <1>1, <1>2 DEF BooksKept
<1>5. ASSUME NEW k \in D PROVE Cardinality({j \in D : j < k}) < t
  <2>1. k \in 0..(t - 1) /\ \A j \in D : j \in 0..(t - 1) BY <1>1 DEF BooksKept
  <2>2. {j \in D : j < k} \in SUBSET (0..(k - 1)) BY <2>1
  <2>3. IsFiniteSet(0..(k - 1)) /\ Cardinality(0..(k - 1)) = k
    <3>1. PICK b \in Int : b = k - 1 /\ k \in Nat BY <2>1, <1>1
    <3>2. IsFiniteSet(0..b) /\ Cardinality(0..b) = IF 0 > b THEN 0 ELSE b - 0 + 1
      BY FS_Interval
    <3>. QED BY <3>1, <3>2
  <2>4. PICK T : T = {j \in D : j < k} OBVIOUS
  <2>5. Cardinality(T) <= k /\ Cardinality(T) \in Nat
    BY <2>2, <2>3, <2>4, FS_Subset, FS_CardinalityType
  <2>. QED BY <2>1, <2>4, <2>5, <1>1
<1>6. list_archived_events(0, archive.total) = D
  <2>1. list_archived_events(0, archive.total) = {k \in D : Cardinality({j \in D : j < k}) < t}
    BY <1>1, <1>4 DEF list_archived_events
  <2>. QED BY <2>1, <1>5
<1>. QED BY <1>3, <1>6 DEF ArchiveBooksBalance, BooksKept

(* The books are kept in every state.                                        *)
LEMMA BooksInvariant == ManagedSpec => []BooksKept
<1>1. ManagedInit => BooksKept
  <2>1. SUFFICES ASSUME ManagedInit PROVE BooksKept OBVIOUS
  <2>2. rs.total \in Nat
    BY <2>1, InitStore DEF ManagedInit, StoreInv, StoreTypeOK
  <2>3. /\ ArchiveFields /\ archive.cursor = 0 /\ archive.total = 0 /\ archive.flags = {}
        /\ archive.order = EmptyMap /\ archive.copies = EmptyMap
        /\ archive.heads = EmptyMap /\ archive.refs = EmptyMap /\ archive.offchain = 0
    BY <2>1 DEF ManagedInit, ArchiveInit, ArchiveFields
  <2>4. DOMAIN EmptyMap = {} BY DEF EmptyMap
  <2>. QED BY <2>2, <2>3, <2>4, FS_EmptySet DEF BooksKept
<1>2. ManagedInv /\ BooksKept /\ [ManagedNext]_managedVars => BooksKept' BY StepKeepsBooks
<1>. QED BY <1>1, <1>2, ManagedInvariant, PTL DEF ManagedSpec

(* Whatever is archived, under whatever configuration, and purged: every id  *)
(* is archived once, keeps one slot until it is purged, and the counters and *)
(* the pages of the archive agree with what is stored.                       *)
THEOREM BooksStayBalanced == ManagedSpec => []ArchiveBooksBalance
<1>1. BooksKept => ArchiveBooksBalance BY KeptBooksBalance
<1>. QED BY <1>1, BooksInvariant, PTL

-----------------------------------------------------------------------------
(* What an archived event reads back as.                                     *)

(* No payload holds a run that two digits cannot count. A run that long      *)
(* (65536 bytes) is more than one entry of the ledger may hold.              *)
PayloadsFit == \A m \in Metadata : RunsFit(BytesOf[m])

(* The two forms of a payload on chain, and the two behind a reference.      *)
OnChainForms(m) == {compress_bytes(BytesOf[m]), BytesOf[m]}
OffChainForms(m) == {compress_bytes(BytesOf[m]), tag_raw_bytes(BytesOf[m])}

EventFields == {"index", "timestamp", "event_type", "category", "submitter", "metadata",
                "prev_hash", "event_hash"}

(* The copy c, and the header h with the payload p, are those of the event   *)
(* that id addresses.                                                        *)
CopyOf(id, c) ==
    /\ DOMAIN c = EventFields
    /\ c.submitter = id.submitter /\ c.timestamp = id.timestamp /\ c.index = id.index
    /\ id.symbol = c.event_type \/ c.event_type \in LongType
    /\ c.metadata \in OnChainForms(id.metadata)
HeadOf(id, h) ==
    /\ h[4] = id.submitter /\ h[2] = id.timestamp /\ h[1] = id.index
    /\ id.symbol = h[3] \/ h[3] \in LongType

(* Copies, headers and payloads stay those of the ids they are kept under.   *)
ContentKept ==
    /\ archive.flags \subseteq EventId
    /\ \A id \in DOMAIN archive.copies : CopyOf(id, archive.copies[id])
    /\ \A id \in DOMAIN archive.refs :
        /\ id \in DOMAIN archive.metas
        /\ HeadOf(id, archive.heads[id])
        /\ archive.metas[id] \in OffChainForms(id.metadata)

(* What archive_events writes for each id it moves.                          *)
LEMMA MovedEntries ==
    ASSUME ArchiveFields, NEW moved, NEW stop,
           archive' = [Move(moved) EXCEPT !.cursor = stop]
    PROVE  /\ archive'.heads = PutAll(archive.heads,
                                      [id \in IdsOf(moved) |-> HeaderOf(data[id])])
           /\ archive'.metas = PutAll(archive.metas,
                [id \in IdsOf(moved) |-> StoredMetadata(data[id].metadata)])
           /\ archive'.copies =
                IF archive.config.offchain THEN archive.copies
                ELSE PutAll(archive.copies,
                       [id \in IdsOf(moved) |->
                          [data[id] EXCEPT !.metadata = StoredMetadata(data[id].metadata)]])
<1>. DEFINE ids   == {order[i] : i \in moved}
            meta  == [id \in ids |-> StoredMetadata(data[id].metadata)]
            n     == Cardinality(moved)
            heads == PutAll(archive.heads, [id \in ids |-> HeaderOf(data[id])])
            metas == PutAll(archive.metas, meta)
            copies == IF archive.config.offchain THEN archive.copies
                      ELSE PutAll(archive.copies,
                                  [id \in ids |-> [data[id] EXCEPT !.metadata = meta[id]]])
            refs  == IF archive.config.offchain
                     THEN PutAll(archive.refs,
                            [id \in ids |-> [index |-> id.index,
                                             checksum |-> data[id].event_hash,
                                             archived_at |-> now]])
                     ELSE archive.refs
            packed == IF archive.config.compression = 1 THEN archive.compressed + n
                      ELSE archive.compressed
            off   == IF archive.config.offchain THEN archive.offchain + n ELSE archive.offchain
            slots == PutAll(archive.order, AddedSlots(moved))
<1>1. Move(moved) = [archive EXCEPT
                       !.flags = archive.flags \cup ids, !.order = slots,
                       !.total = archive.total + n, !.heads = heads, !.metas = metas,
                       !.copies = copies, !.refs = refs, !.compressed = packed,
                       !.offchain = off]
  BY DEF Move, AddedSlots, SlotsOf, Place
<1>2. ids = IdsOf(moved) BY DEF IdsOf
<1>3. [id \in ids |-> [data[id] EXCEPT !.metadata = meta[id]]]
        = [id \in ids |-> [data[id] EXCEPT !.metadata = StoredMetadata(data[id].metadata)]]
  <2>1. \A id \in ids : meta[id] = StoredMetadata(data[id].metadata) OBVIOUS
  <2>. HIDE DEF meta, ids
  <2>. QED BY <2>1
<1>. HIDE DEF ids, heads, metas, copies, refs, packed, off, slots
<1>4. PICK m : m = Move(moved) OBVIOUS
<1>5. DOMAIN m = DOMAIN archive /\ m.heads = heads /\ m.metas = metas /\ m.copies = copies
  BY <1>1, <1>4 DEF ArchiveFields
<1>6. archive'.heads = heads /\ archive'.metas = metas /\ archive'.copies = copies
  BY <1>4, <1>5 DEF ArchiveFields
<1>. QED BY <1>2, <1>3, <1>6 DEF heads, metas, copies

(* The fields other than the configuration, and what purging keeps.          *)
LEMMA ConfiguredMetas ==
    ASSUME ArchiveFields, NEW config, archive' = [archive EXCEPT !.config = config]
    PROVE  archive'.metas = archive.metas
BY DEF ArchiveFields

LEMMA PurgedEntries ==
    ASSUME ArchiveFields, NEW slots, NEW ids,
           archive' = [archive EXCEPT !.order = Without(@, slots),
                                      !.copies = Without(@, ids),
                                      !.heads = Without(@, ids),
                                      !.metas = Without(@, ids)]
    PROVE  /\ archive'.copies = Without(archive.copies, ids)
           /\ archive'.heads = Without(archive.heads, ids)
           /\ archive'.metas = Without(archive.metas, ids)
<1>1. PICK o : o = Without(archive.order, slots) OBVIOUS
<1>2. PICK p : p = Without(archive.copies, ids) OBVIOUS
<1>3. PICK q : q = Without(archive.heads, ids) OBVIOUS
<1>4. PICK m : m = Without(archive.metas, ids) OBVIOUS
<1>5. archive' = [archive EXCEPT !.order = o, !.copies = p, !.heads = q, !.metas = m]
  BY <1>1, <1>2, <1>3, <1>4
<1>6. archive'.copies = p /\ archive'.heads = q /\ archive'.metas = m
  BY <1>5 DEF ArchiveFields
<1>. QED BY <1>2, <1>3, <1>4, <1>6

(* The event at a position, and its copy and header.                         *)
LEMMA ArchivedEntry ==
    ASSUME StoreInv, NEW i \in DOMAIN order, NEW id, id = order[i]
    PROVE  /\ id \in EventId /\ HeadOf(id, HeaderOf(data[id]))
           /\ data[id].metadata = id.metadata
           /\ \A p \in OnChainForms(id.metadata) :
                CopyOf(id, [data[id] EXCEPT !.metadata = p])
<1>1. i \in 0..(rs.total - 1) BY DEF StoreInv, StoreConsistent
<1>2. id \in EventId /\ EventAt(i) \in Event BY <1>1, EventAtType DEF StoreInv
<1>3. Addresses(id, EventAt(i)) BY DEF StoreInv, StoreConsistent
<1>4. PICK e : e = data[id] OBVIOUS
<1>5. e \in Event /\ Addresses(id, e) BY <1>2, <1>3, <1>4 DEF EventAt
<1>6. DOMAIN e = EventFields BY <1>5 DEF Event, EventFields
<1>7. HeadOf(id, HeaderOf(e)) BY <1>5 DEF HeadOf, HeaderOf, Addresses
<1>8. ASSUME NEW p \in OnChainForms(id.metadata) PROVE CopyOf(id, [e EXCEPT !.metadata = p])
  <2>1. PICK c : c = [e EXCEPT !.metadata = p] OBVIOUS
  <2>2. /\ DOMAIN c = EventFields /\ c.submitter = e.submitter /\ c.timestamp = e.timestamp
        /\ c.index = e.index /\ c.event_type = e.event_type /\ c.metadata = p
    BY <2>1, <1>6 DEF EventFields
  <2>3. CopyOf(id, c) BY <2>2, <1>5 DEF CopyOf, Addresses
  <2>. QED BY <2>1, <2>3
<1>. QED BY <1>2, <1>4, <1>5, <1>7, <1>8 DEF Addresses

(* Archiving writes the content of the ids it moves and of no other.         *)
LEMMA MoveKeepsContent ==
    ASSUME StoreInv, BooksKept, ContentKept, NEW S, S \subseteq DOMAIN order,
           \A i \in S : order[i] \notin archive.flags,
           NEW stop, archive' = [Move(S) EXCEPT !.cursor = stop]
    PROVE  ContentKept'
<1>. DEFINE ids == IdsOf(S)
            heads == [id \in ids |-> HeaderOf(data[id])]
            metas == [id \in ids |-> StoredMetadata(data[id].metadata)]
            copies == [id \in ids |->
                        [data[id] EXCEPT !.metadata = StoredMetadata(data[id].metadata)]]
            off == archive.config.offchain
<1>1. /\ archive'.heads = PutAll(archive.heads, heads)
      /\ archive'.metas = PutAll(archive.metas, metas)
      /\ archive'.copies = IF off THEN archive.copies ELSE PutAll(archive.copies, copies)
  BY MovedEntries DEF BooksKept
<1>2. /\ archive'.flags = archive.flags \cup ids
      /\ DOMAIN archive'.copies = IF off THEN DOMAIN archive.copies
                                  ELSE DOMAIN archive.copies \cup ids
      /\ DOMAIN archive'.refs = IF off THEN DOMAIN archive.refs \cup ids
                                ELSE DOMAIN archive.refs
  BY MovedFields DEF BooksKept
<1>3. /\ ids \cap DOMAIN archive.copies = {} /\ ids \cap DOMAIN archive.refs = {}
      /\ DOMAIN archive.refs \subseteq DOMAIN archive.heads
  BY DEF IdsOf, BooksKept
<1>4. ASSUME NEW id \in ids
      PROVE  /\ id \in EventId /\ HeadOf(id, HeaderOf(data[id]))
             /\ off => StoredMetadata(data[id].metadata) \in OffChainForms(id.metadata)
             /\ ~off => /\ StoredMetadata(data[id].metadata) \in OnChainForms(id.metadata)
                        /\ CopyOf(id, copies[id])
  <2>1. PICK i \in DOMAIN order : id = order[i] BY DEF IdsOf
  <2>2. /\ id \in EventId /\ HeadOf(id, HeaderOf(data[id]))
        /\ data[id].metadata = id.metadata
        /\ \A p \in OnChainForms(id.metadata) :
             CopyOf(id, [data[id] EXCEPT !.metadata = p])
    BY <2>1, ArchivedEntry
  <2>3. /\ off => StoredMetadata(id.metadata) \in OffChainForms(id.metadata)
        /\ ~off => StoredMetadata(id.metadata) \in OnChainForms(id.metadata)
    BY DEF StoredMetadata, OffChainForms, OnChainForms
  <2>4. copies[id] = [data[id] EXCEPT !.metadata = StoredMetadata(data[id].metadata)]
    OBVIOUS
  <2>. HIDE DEF copies
  <2>. QED BY <2>2, <2>3, <2>4
<1>5. /\ DOMAIN heads = ids /\ DOMAIN metas = ids /\ DOMAIN copies = ids
      /\ \A id \in ids : /\ heads[id] = HeaderOf(data[id])
                         /\ metas[id] = StoredMetadata(data[id].metadata)
  OBVIOUS
<1>. HIDE DEF ids, heads, metas, copies, off
<1>6. archive'.flags \subseteq EventId BY <1>2, <1>4 DEF ContentKept
<1>7. ASSUME NEW id \in DOMAIN archive'.copies PROVE CopyOf(id, archive'.copies[id])
  <2>1. CASE id \in DOMAIN archive.copies
    <3>1. archive'.copies[id] = archive.copies[id]
      BY <2>1, <1>1, <1>3, <1>5 DEF PutAll
    <3>. QED BY <2>1, <3>1 DEF ContentKept
  <2>2. CASE id \notin DOMAIN archive.copies
    <3>1. ~off /\ id \in ids BY <2>2, <1>2
    <3>2. archive'.copies[id] = copies[id] BY <3>1, <1>1, <1>5 DEF PutAll
    <3>. QED BY <3>1, <3>2, <1>4
  <2>. QED BY <2>1, <2>2
<1>8. ASSUME NEW id \in DOMAIN archive'.refs
      PROVE  /\ id \in DOMAIN archive'.metas /\ HeadOf(id, archive'.heads[id])
             /\ archive'.metas[id] \in OffChainForms(id.metadata)
  <2>1. CASE id \in DOMAIN archive.refs
    <3>1. id \notin ids /\ id \in DOMAIN archive.metas /\ id \in DOMAIN archive.heads
      BY <2>1, <1>3 DEF ContentKept
    <3>2. /\ archive'.heads[id] = archive.heads[id] /\ archive'.metas[id] = archive.metas[id]
          /\ id \in DOMAIN archive'.metas
      BY <3>1, <1>1, <1>5 DEF PutAll
    <3>. QED BY <2>1, <3>2 DEF ContentKept
  <2>2. CASE id \notin DOMAIN archive.refs
    <3>1. off /\ id \in ids BY <2>2, <1>2
    <3>2. /\ archive'.heads[id] = heads[id] /\ archive'.metas[id] = metas[id]
          /\ id \in DOMAIN archive'.metas
      BY <3>1, <1>1, <1>5 DEF PutAll
    <3>. QED BY <3>1, <3>2, <1>4, <1>5
  <2>. QED BY <2>1, <2>2
<1>. QED BY <1>6, <1>7, <1>8 DEF ContentKept

(* Every step keeps the content.                                             *)
LEMMA StepKeepsContent ==
    ASSUME ManagedInv, BooksKept, ContentKept, [ManagedNext]_managedVars
    PROVE  ContentKept'
<1>0. /\ rs.total \in Nat /\ archive.cursor \in Nat /\ archive.cursor <= rs.total
      /\ DOMAIN order = 0..(rs.total - 1) /\ ArchiveFields /\ StoreInv
  BY DEF ManagedInv, StoreInv, StoreTypeOK, StoreConsistent, BooksKept
<1>1. CASE archive' = archive BY <1>1 DEF ContentKept
<1>2. CASE ArchiveCalls
  <2>1. ASSUME NEW cutoff \in Nat,
               archive' = [Move(Moved(cutoff)) EXCEPT !.cursor = ScanEnd(cutoff)]
        PROVE  ContentKept'
    <3>1. PICK stop : stop = ScanEnd(cutoff) OBVIOUS
    <3>2. stop \in archive.cursor..rs.total BY <3>1, <1>0, ScanStops
    <3>3. PICK S : S = Moved(cutoff) OBVIOUS
    <3>4. S \subseteq DOMAIN order
      <4>1. S \subseteq archive.cursor..(stop - 1) BY <3>1, <3>3 DEF Moved
      <4>. QED BY <4>1, <3>2, <1>0
    <3>5. \A i \in S : order[i] \notin archive.flags BY <3>3 DEF Moved
    <3>. QED BY <2>1, <3>1, <3>3, <3>4, <3>5, <1>0, MoveKeepsContent
  <2>2. ASSUME NEW config, archive' = [archive EXCEPT !.config = config] PROVE ContentKept'
    <3>1. /\ archive'.copies = archive.copies /\ archive'.heads = archive.heads
          /\ archive'.flags = archive.flags /\ archive'.refs = archive.refs
          /\ archive'.metas = archive.metas
      BY <2>2, <1>0, ConfiguredFields, ConfiguredMetas
    <3>. QED BY <3>1 DEF ContentKept
  <2>3. ASSUME NEW cutoff \in Nat,
               LET ids == {archive.order[k] : k \in Purged(cutoff)}
               IN  archive' = [archive EXCEPT !.order = Without(@, Purged(cutoff)),
                                              !.copies = Without(@, ids),
                                              !.heads = Without(@, ids),
                                              !.metas = Without(@, ids)]
        PROVE  ContentKept'
    <3>1. PICK ids : ids = {archive.order[k] : k \in Purged(cutoff)} OBVIOUS
    <3>2. /\ archive'.copies = Without(archive.copies, ids)
          /\ archive'.heads = Without(archive.heads, ids)
          /\ archive'.metas = Without(archive.metas, ids)
      BY <2>3, <3>1, <1>0, PurgedEntries
    <3>3. archive'.flags = archive.flags /\ archive'.refs = archive.refs
      BY <2>3, <3>1, <1>0, PurgedFields
    <3>4. ids \subseteq DOMAIN archive.copies BY <3>1 DEF Purged
    <3>5. /\ ids \cap DOMAIN archive.refs = {}
          /\ DOMAIN archive.refs \subseteq DOMAIN archive.heads
      BY <3>4 DEF BooksKept
    <3>6. /\ DOMAIN archive'.copies \subseteq DOMAIN archive.copies
          /\ \A id \in DOMAIN archive'.copies : archive'.copies[id] = archive.copies[id]
      BY <3>2 DEF Without
    <3>7. \A id \in DOMAIN archive.refs :
            /\ id \in DOMAIN archive'.metas
            /\ archive'.heads[id] = archive.heads[id] /\ archive'.metas[id] = archive.metas[id]
      BY <3>2, <3>5 DEF Without, ContentKept
    <3>. QED BY <3>3, <3>6, <3>7 DEF ContentKept
  <2>. QED BY <1>0, <1>1, <1>2, <2>1, <2>2, <2>3, ArchiveMove
<1>. QED BY <1>1, <1>2 DEF ManagedNext, CoreCalls, managedVars

(* A compressed payload is recognised as one.                                *)
LEMMA CompressedIsTagged ==
    ASSUME NEW p \in Seq(Byte)
    PROVE  is_compressed_tag(compress_bytes(p))
<1>1. PICK enc : Encodes(p, enc) /\ compress_bytes(p) = <<RunMark>> \o enc[1]
  BY CompressDefined
<1>2. 1 \in 1..(Len(p) + 1) OBVIOUS
<1>3. enc[1] \in Seq(Byte) BY <1>1, <1>2 DEF Encodes
<1>4. \A s \in Seq(Byte) : Len(<<RunMark>> \o s) >= 1 /\ (<<RunMark>> \o s)[1] = RunMark
  BY DEF RunMark
<1>5. PICK s \in Seq(Byte) : s = enc[1] BY <1>3
<1>. QED BY <1>1, <1>4, <1>5 DEF is_compressed_tag

(* Kept content is read back faithfully.                                     *)
LEMMA KeptContentIsFaithful ==
    ASSUME PayloadsFit, BooksKept, ContentKept
    PROVE  ArchiveFaithful
<1>1. SUFFICES ASSUME NEW id \in archive.flags, Readable(id)
               PROVE  LET e == get_archived_event(id)
                      IN  /\ Addresses([id EXCEPT !.metadata = e.metadata], e)
                          /\ e.metadata = BytesOf[id.metadata] \/ Misread(id)
  BY DEF ArchiveFaithful
<1>2. id \in EventId BY DEF ContentKept
<1>3. PICK B : B = BytesOf[id.metadata] OBVIOUS
<1>4. B \in Seq(Byte) /\ RunsFit(B) BY <1>2, <1>3, BytesAssumption DEF EventId, PayloadsFit
<1>5. /\ expand_archived_metadata(tag_raw_bytes(B)) = B
      /\ ~EndsInRun(B) => expand_archived_metadata(compress_bytes(B)) = B
  BY <1>4, RoundTripsAlways DEF RoundTrips
<1>6. is_compressed_tag(compress_bytes(B)) BY <1>4, CompressedIsTagged
<1>7. PICK e : e = get_archived_event(id) OBVIOUS
<1>8. SUFFICES /\ e.submitter = id.submitter /\ e.timestamp = id.timestamp
               /\ e.index = id.index
               /\ id.symbol = e.event_type \/ e.event_type \in LongType
               /\ e.metadata = B \/ Misread(id)
  <2>1. PICK m : m = e.metadata OBVIOUS
  <2>2. PICK x : x = [id EXCEPT !.metadata = m] OBVIOUS
  <2>3. /\ x.metadata = m /\ x.submitter = id.submitter /\ x.timestamp = id.timestamp
        /\ x.index = id.index /\ x.symbol = id.symbol
    BY <2>2, <1>2 DEF EventId
  <2>4. Addresses(x, e) BY <2>1, <2>3, <1>8 DEF Addresses
  <2>. QED BY <2>1, <2>2, <2>4, <1>3, <1>7, <1>8
<1>9. CASE id \in DOMAIN archive.copies
  <2>1. PICK c : c = archive.copies[id] OBVIOUS
  <2>2. CopyOf(id, c) BY <1>9, <2>1 DEF ContentKept
  <2>3. c.metadata = compress_bytes(B) \/ c.metadata = B
    BY <2>2, <1>3 DEF CopyOf, OnChainForms
  <2>4. e = IF is_compressed_tag(c.metadata)
            THEN [c EXCEPT !.metadata = expand_archived_metadata(c.metadata)] ELSE c
    BY <1>7, <1>9, <2>1 DEF get_archived_event
  <2>5. Misread(id) <=> \/ EndsInRun(B) /\ c.metadata = compress_bytes(B)
                        \/ c.metadata = B /\ is_compressed_tag(B)
    BY <1>3, <1>9, <2>1 DEF Misread
  <2>6. CASE is_compressed_tag(c.metadata)
    <3>1. PICK m : m = expand_archived_metadata(c.metadata) OBVIOUS
    <3>2. e = [c EXCEPT !.metadata = m] BY <2>4, <2>6, <3>1
    <3>3. /\ e.submitter = c.submitter /\ e.timestamp = c.timestamp /\ e.index = c.index
          /\ e.event_type = c.event_type /\ e.metadata = m
      BY <3>2, <2>2 DEF CopyOf, EventFields
    <3>4. m = B \/ Misread(id) BY <2>3, <2>5, <2>6, <3>1, <1>5
    <3>. QED BY <3>3, <3>4, <2>2 DEF CopyOf
  <2>7. CASE ~is_compressed_tag(c.metadata)
    <3>1. e = c BY <2>4, <2>7
    <3>2. c.metadata = B BY <2>3, <2>7, <1>6
    <3>. QED BY <3>1, <3>2, <2>2 DEF CopyOf
  <2>. QED BY <2>6, <2>7
<1>10. CASE id \notin DOMAIN archive.copies
  <2>1. id \in DOMAIN archive.refs BY <1>1, <1>10 DEF Readable
  <2>2. PICK h : h = archive.heads[id] OBVIOUS
  <2>3. PICK s : s = archive.metas[id] OBVIOUS
  <2>4. HeadOf(id, h) /\ s \in OffChainForms(id.metadata) /\ id \in DOMAIN archive.metas
    BY <2>1, <2>2, <2>3 DEF ContentKept
  <2>5. PICK m : m = expand_archived_metadata(s) OBVIOUS
  <2>6. e = [index |-> h[1], timestamp |-> h[2], event_type |-> h[3],
             submitter |-> h[4], category |-> "general", metadata |-> m,
             event_hash |-> archive.refs[id].checksum, prev_hash |-> Genesis]
    BY <1>7, <1>10, <2>2, <2>3, <2>4, <2>5 DEF get_archived_event, GetOr
  <2>7. /\ e.index = h[1] /\ e.timestamp = h[2] /\ e.event_type = h[3]
        /\ e.submitter = h[4] /\ e.metadata = m
    BY <2>6
  <2>8. m = B \/ Misread(id)
    <3>1. s = compress_bytes(B) \/ s = tag_raw_bytes(B) BY <2>4, <1>3 DEF OffChainForms
    <3>2. EndsInRun(B) /\ s = compress_bytes(B) => Misread(id)
      BY <1>3, <1>10, <2>3 DEF Misread
    <3>. QED BY <3>1, <3>2, <2>5, <1>5
  <2>. QED BY <2>4, <2>7, <2>8 DEF HeadOf
<1>. QED BY <1>9, <1>10

(* get_archived_event gives back the content the id was computed from, for   *)
(* every sequence of amendments, sweeps, configurations, archivings and      *)
(* purges; the only payloads it misreads are the two kinds named in Misread. *)
THEOREM ArchiveStaysFaithful ==
    ASSUME PayloadsFit
    PROVE  ManagedSpec => []ArchiveFaithful
<1>1. ManagedInit => ContentKept
  <2>1. DOMAIN EmptyMap = {} BY DEF EmptyMap
  <2>. QED BY <2>1 DEF ManagedInit, ArchiveInit, ContentKept
<1>2. ManagedInv /\ BooksKept /\ ContentKept /\ [ManagedNext]_managedVars => ContentKept'
  BY StepKeepsContent
<1>3. BooksKept /\ ContentKept => ArchiveFaithful BY KeptContentIsFaithful
<1>. QED BY <1>1, <1>2, <1>3, BooksInvariant, ManagedInvariant, PTL DEF ManagedSpec
=============================================================================
