--------------------------- MODULE RelayerProofs ---------------------------
(* Proof that the relayer submits no event twice and loses none behind its   *)
(* cursor, for all constants. What a poll does is a loop over the page, so   *)
(* the proof carries an invariant through that loop by induction.            *)
EXTENDS BridgeRelayer, FiniteSetTheorems, SequenceTheorems, WellFoundedInduction,
        TLAPS

-----------------------------------------------------------------------------
(* Induction.                                                                *)

(* A nonempty set of natural numbers has a least element.                    *)
LEMMA LeastNatural ==
    ASSUME NEW S \in SUBSET Nat, S # {}
    PROVE  \E n \in S : \A m \in S : n <= m
<1> DEFINE less == {ss \in Nat \X Nat : ss[1] < ss[2]}
<1>1. IsWellFoundedOn(less, Nat)
    BY NatLessThanWellFounded, Zenon DEF OpToRel
<1>2. \E x \in S : \A y \in S : ~ (<<y, x>> \in less)
  <2> HIDE DEF less
  <2> QED BY <1>1, WFMin
<1>3. PICK x \in S : \A y \in S : ~ (<<y, x>> \in less)
    BY <1>2
<1>4. ASSUME NEW m \in S PROVE x <= m
  <2>1. <<m, x>> \in Nat \X Nat /\ <<m, x>>[1] = m /\ <<m, x>>[2] = x
      OBVIOUS
  <2>2. ~ (m < x)
      BY <1>3, <2>1
  <2> QED BY <2>2
<1> QED BY <1>4

(* Induction on the natural numbers, over a set.                             *)
LEMMA NatSetInduction ==
    ASSUME NEW S \in SUBSET Nat, 0 \in S, \A n \in S : n + 1 \in S
    PROVE  \A n \in Nat : n \in S
<1> SUFFICES ASSUME Nat \ S # {} PROVE FALSE
    OBVIOUS
<1>1. PICK n \in Nat \ S : \A m \in Nat \ S : n <= m
    BY LeastNatural
<1>2. n # 0 /\ n - 1 \in Nat
    BY <1>1
<1>3. n - 1 \in S
    BY <1>1, <1>2
<1> QED BY <1>1, <1>2, <1>3

(* A function may be defined by what it is at 0 and how it goes on.          *)
Iterates(f, n, S, a, step) ==
    f \in [0..n -> S] /\ f[0] = a /\ \A k \in 1..n : f[k] = step[<<k, f[k - 1]>>]

LEMMA IterationExists ==
    ASSUME NEW n \in Nat, NEW S, NEW a \in S, NEW step \in [(1..n) \X S -> S]
    PROVE  \E f : Iterates(f, n, S, a, step)
<1> DEFINE Upto(m) == \E f \in [0..m -> S] :
                         f[0] = a /\ \A k \in 1..m : f[k] = step[<<k, f[k - 1]>>]
           T == {m \in Nat : m <= n => Upto(m)}
<1>1. 0 \in T
  <2> DEFINE g == [k \in 0..0 |-> a]
  <2>1. g \in [0..0 -> S] /\ g[0] = a
      OBVIOUS
  <2>2. \A k \in 1..0 : g[k] = step[<<k, g[k - 1]>>]
      OBVIOUS
  <2> HIDE DEF g
  <2>3. Upto(0)
      BY <2>1, <2>2
  <2> QED BY <2>3
<1>2. ASSUME NEW m \in T PROVE m + 1 \in T
  <2> SUFFICES ASSUME m + 1 <= n PROVE Upto(m + 1)
      OBVIOUS
  <2>1. PICK f \in [0..m -> S] : f[0] = a /\ \A k \in 1..m : f[k] = step[<<k, f[k - 1]>>]
      OBVIOUS
  <2> DEFINE g == [k \in 0..(m + 1) |-> IF k = m + 1 THEN step[<<m + 1, f[m]>>] ELSE f[k]]
  <2>2. step[<<m + 1, f[m]>>] \in S
    <3>1. <<m + 1, f[m]>> \in (1..n) \X S
        OBVIOUS
    <3> QED BY <3>1
  <2>3. g \in [0..(m + 1) -> S]
      BY <2>1, <2>2
  <2>4. g[0] = a
      BY <2>1
  <2>5. ASSUME NEW k \in 1..(m + 1) PROVE g[k] = step[<<k, g[k - 1]>>]
    <3>1. CASE k = m + 1
      <4>1. g[k - 1] = f[m] /\ g[k] = step[<<m + 1, f[m]>>]
          BY <3>1
      <4> QED BY <3>1, <4>1
    <3>2. CASE k # m + 1
      <4>1. k \in 1..m /\ g[k] = f[k] /\ g[k - 1] = f[k - 1]
          BY <3>2
      <4> QED BY <4>1, <2>1
    <3> QED BY <3>1, <3>2
  <2> HIDE DEF g
  <2> QED BY <2>3, <2>4, <2>5
<1>3. n \in T
  <2> HIDE DEF T
  <2>1. T \in SUBSET Nat
      BY DEF T
  <2> QED BY <1>1, <1>2, <2>1, NatSetInduction
<1> QED BY <1>3 DEF Iterates

-----------------------------------------------------------------------------
(* The invariant.                                                            *)

(* The deduplication set keeps, after it was halved, at least as many events *)
(* as a page repeats.                                                        *)
OverlapRemembered == Overlap <= MaxDedupSize - MaxDedupSize \div 2 + 1

Ascending(q) == \A j, k \in DOMAIN q : j < k => q[j] < q[k]

(* The deduplication set holds the latest of the events before the cursor    *)
(* that passed the filters: all of them, or at least those a page repeats.   *)
Remembered(cursor, seen) ==
    /\ \A k \in DOMAIN seen : seen[k] < cursor
    /\ \A j, k \in DOMAIN seen : j <= k => seen[j] + (k - j) <= seen[k]
    /\ \A e \in Event \ Rejected :
          e < cursor /\ e \notin ToSet(seen) =>
             /\ Len(seen) >= MaxDedupSize - MaxDedupSize \div 2 + 1
             /\ e < seen[1]

(* What is collected came in order and from before the cursor.               *)
InOrder(cursor, queue) ==
    /\ Ascending(queue)
    /\ \A k \in DOMAIN queue : queue[k] < cursor /\ queue[k] \notin Rejected

RelayerTyped ==
    /\ logged \in 0..MaxEvents
    /\ poll \in [cursor : 0..MaxEvents, idle : Nat, seen : Seq(Event)]
    /\ poll.cursor <= logged
    /\ batch \in [pending : Seq(Event), elapsed : BOOLEAN, entries : Seq(Event),
                  verifying : BOOLEAN]
    /\ recovery \in [attempts : [Event -> Nat], dead : Seq(Event)]
    /\ sent \in [Event -> Nat]

(* The entries that are not sent yet, and the events that wait.              *)
Unsent == IF batch.verifying THEN Tail(batch.entries) ELSE batch.entries
InMemory == ToSet(batch.pending) \cup ToSet(Unsent)

(* Collected and flushed events keep their order, and never both wait.       *)
QueuesOrdered ==
    /\ InOrder(poll.cursor, batch.pending)
    /\ InOrder(poll.cursor, batch.entries)
    /\ ToSet(batch.entries) \cap Unprovable = {}
    /\ batch.entries # <<>> => batch.pending = <<>>
    /\ batch.verifying => batch.entries # <<>>

(* Every event before the cursor waits or was sent, none both.               *)
SentOrWaiting ==
    \A e \in Event :
        /\ sent[e] <= 1
        /\ e \in InMemory => sent[e] = 0
        /\ sent[e] > 0 => e < poll.cursor
        /\ e < poll.cursor /\ e \notin Rejected \cup Unprovable /\ e \notin InMemory
              => sent[e] = 1

FailuresWereSent ==
    \A e \in Event :
        /\ e \in ToSet(recovery.dead) => sent[e] = 1
        /\ recovery.attempts[e] > 0 => sent[e] = 1 /\ e \notin ToSet(recovery.dead)

RelayerInv ==
    /\ RelayerTyped
    /\ Remembered(poll.cursor, poll.seen)
    /\ QueuesOrdered
    /\ SentOrWaiting
    /\ FailuresWereSent

-----------------------------------------------------------------------------
(* The loop over a page.                                                     *)

(* The larger and the smaller of two numbers.                                *)
LEMMA MaxOfTwo ==
    ASSUME NEW a \in Int, NEW b \in Int
    PROVE  Max({a, b}) = IF a >= b THEN a ELSE b
BY DEF Max

LEMMA MinOfTwo ==
    ASSUME NEW a \in Int, NEW b \in Int
    PROVE  Min({a, b}) = IF a <= b THEN a ELSE b
BY DEF Min

(* The constants are numbers and sets of events.                             *)
LEMMA RelayerConstants ==
    /\ MaxEvents \in Nat /\ Overlap \in Nat /\ MaxRetries \in Nat
    /\ PageSize \in Nat \ {0} /\ MaxDedupSize \in Nat \ {0}
    /\ IdleThreshold \in Nat \ {0} /\ MaxDeadLetters \in Nat \ {0}
    /\ Event \subseteq Nat
    /\ \A e : e \in Event <=> e \in Nat /\ e < MaxEvents
BY RelayerAssumption DEF Event

(* What registering an event leaves of the set: it ends with the event, and  *)
(* either nothing was dropped or the half that was kept is long enough.      *)
LEMMA Registered ==
    ASSUME NEW cursor \in 0..MaxEvents, NEW seen \in Seq(Event), Remembered(cursor, seen),
           NEW i \in Event \ Rejected, cursor <= i,
           \A e \in Event \ Rejected : e < i => e < cursor
    PROVE  /\ Append(Trimmed(seen), i) \in Seq(Event)
           /\ Remembered(i + 1, Append(Trimmed(seen), i))
<1> USE RelayerConstants
<1> DEFINE K == MaxDedupSize - MaxDedupSize \div 2
           kept == Trimmed(seen)
           drop == IF Len(seen) < MaxDedupSize THEN 0 ELSE Len(seen) \div 2
           new == Append(kept, i)
<1>0. /\ Len(seen) \in Nat /\ drop \in Nat /\ drop <= Len(seen) /\ K \in Nat
      /\ drop > 0 => Len(seen) - drop >= K /\ Len(seen) - drop >= 1
  <2>1. Len(seen) \in Nat
      OBVIOUS
  <2> QED BY <2>1
<1>t. i \in Nat /\ cursor \in Nat /\ DOMAIN seen = 1..Len(seen)
    OBVIOUS
<1>a. /\ \A k \in 1..Len(seen) : seen[k] < cursor /\ seen[k] \in Nat
      /\ \A j, k \in 1..Len(seen) : j <= k => seen[j] + (k - j) <= seen[k]
  <2>1. \A k \in 1..Len(seen) : seen[k] \in Event
      BY <1>t
  <2> QED BY <2>1, <1>t DEF Remembered
<1>b. \A e \in Event \ Rejected :
          e < cursor /\ e \notin ToSet(seen) => Len(seen) >= K + 1 /\ e < seen[1]
    BY DEF Remembered
<1>1. /\ kept \in Seq(Event)
      /\ Len(kept) = Len(seen) - drop
      /\ \A k \in 1..Len(kept) : kept[k] = seen[k + drop]
  <2>1. CASE Len(seen) < MaxDedupSize
      BY <2>1 DEF Trimmed
  <2>2. CASE ~(Len(seen) < MaxDedupSize)
    <3> DEFINE h == Len(seen) \div 2 + 1
    <3>1. kept = SubSeq(seen, h, Len(seen))
        BY <2>2 DEF Trimmed
    <3>2. h \in 1..(Len(seen) + 1) /\ Len(seen) \in (h - 1)..Len(seen) /\ drop = h - 1
        BY <2>2, <1>0
    <3> HIDE DEF kept, drop, h
    <3>3. /\ SubSeq(seen, h, Len(seen)) \in Seq(Event)
          /\ Len(SubSeq(seen, h, Len(seen))) = Len(seen) - h + 1
          /\ \A k \in 1..(Len(seen) - h + 1) :
                SubSeq(seen, h, Len(seen))[k] = seen[h + k - 1]
        BY <3>2, SubSeqProperties
    <3>4. \A k \in Nat : h + k - 1 = k + drop
        BY <3>2
    <3>5. kept \in Seq(Event) BY <3>1, <3>3
    <3>6. /\ Len(kept) = Len(seen) - h + 1
          /\ \A k \in 1..(Len(seen) - h + 1) : kept[k] = seen[h + k - 1]
        BY <3>1, <3>3
    <3>7. Len(seen) - h + 1 = Len(seen) - drop /\ Len(seen) - drop \in Nat
        BY <3>2, <1>0, SMTT(30)
    <3>8. Len(kept) = Len(seen) - drop BY <3>6, <3>7
    <3>9. ASSUME NEW k \in 1..Len(kept)
          PROVE  kept[k] = seen[k + drop]
      <4>1. k \in Nat /\ k \in 1..(Len(seen) - h + 1) BY <3>6, <3>7, <3>8
      <4>2. kept[k] = seen[h + k - 1] BY <3>6, <4>1, Zenon
      <4>3. h + k - 1 = k + drop BY <3>4, <4>1
      <4>. QED BY <4>2, <4>3, Zenon
    <3> QED BY <3>5, <3>8, <3>9, Zenon
  <2> QED BY <2>1, <2>2
<1> HIDE DEF kept, drop, K
<1>2. drop > 0 => Len(kept) >= K /\ Len(kept) >= 1
    BY <1>0, <1>1
<1>3. /\ new \in Seq(Event) /\ Len(new) = Len(kept) + 1
      /\ \A k \in 1..Len(kept) : new[k] = seen[k + drop]
      /\ new[Len(kept) + 1] = i
    BY <1>1
<1> HIDE DEF new
<1>n. /\ Len(kept) \in Nat /\ Len(new) \in Nat /\ Len(new) = Len(kept) + 1
      /\ Len(kept) = Len(seen) - drop
    BY <1>1, <1>3
<1>4. \A k \in 1..Len(new) : new[k] < i + 1
  <2> SUFFICES ASSUME NEW k \in 1..Len(new) PROVE new[k] < i + 1
      OBVIOUS
  <2>1. CASE k = Len(kept) + 1
      BY <2>1, <1>3, <1>t
  <2>2. CASE k \in 1..Len(kept)
    <3>1. k + drop \in 1..Len(seen) /\ new[k] = seen[k + drop]
        BY <2>2, <1>0, <1>n, <1>3
    <3> QED BY <3>1, <1>a, <1>t
  <2> QED BY <2>1, <2>2, <1>3, <1>n
<1>5. \A j, k \in 1..Len(new) : j <= k => new[j] + (k - j) <= new[k]
  <2> SUFFICES ASSUME NEW j \in 1..Len(new), NEW k \in 1..Len(new), j <= k
               PROVE  new[j] + (k - j) <= new[k]
      OBVIOUS
  <2>1. CASE k <= Len(kept)
    <3>1. j + drop \in 1..Len(seen) /\ k + drop \in 1..Len(seen)
        BY <2>1, <1>0, <1>n
    <3>2. seen[j + drop] + ((k + drop) - (j + drop)) <= seen[k + drop]
        BY <3>1, <1>0, <1>a, <1>b
    <3>3. new[j] = seen[j + drop] /\ new[k] = seen[k + drop]
      <4>1. j \in 1..Len(kept) /\ k \in 1..Len(kept)
          BY <2>1, <1>n
      <4> QED BY <4>1, <1>3
    <3>4. seen[j + drop] \in Nat /\ seen[k + drop] \in Nat
        BY <3>1
    <3> QED BY <3>2, <3>3, <3>4, <1>0
  <2>2. CASE k = Len(kept) + 1 /\ j = k
      BY <2>2, <1>3
  <2>3. CASE k = Len(kept) + 1 /\ j < k
    <3>0. j \in Nat /\ 1 <= j /\ j <= Len(kept) /\ Len(kept) = Len(seen) - drop
        BY <2>3, <1>1
    <3>1. j + drop \in 1..Len(seen) /\ Len(seen) \in 1..Len(seen)
        BY <3>0, <1>0
    <3>2. seen[j + drop] + (Len(seen) - (j + drop)) <= seen[Len(seen)]
        BY <3>1, <1>0, <1>a, <1>b
    <3>3. seen[Len(seen)] < cursor /\ seen[Len(seen)] \in Nat /\ seen[j + drop] \in Nat
        BY <3>1, <1>a, <1>b
    <3>4. new[j] = seen[j + drop] /\ new[k] = i
      <4>1. j \in 1..Len(kept)
          BY <3>0, <1>n
      <4> QED BY <4>1, <2>3, <1>3
    <3>5. k - j = (Len(seen) - (j + drop)) + 1
        BY <3>0, <2>3, <1>0
    <3>6. seen[j + drop] + (k - j) <= i
      <4> DEFINE a == seen[j + drop]  b == seen[Len(seen)]  d == Len(seen) - (j + drop)
      <4>1. a \in Nat /\ b \in Nat /\ d \in Int /\ a + d <= b /\ b < cursor
          BY <3>0, <3>2, <3>3, <1>0
      <4>2. k - j = d + 1
          BY <3>5
      <4> HIDE DEF a, b, d
      <4>3. a + (d + 1) <= i
          BY <4>1, <1>t
      <4> QED BY <4>2, <4>3 DEF a
    <3> QED BY <3>4, <3>6
  <2> QED BY <2>1, <2>2, <2>3, <1>3, <1>n
<1>6. ASSUME NEW e \in Event \ Rejected, e < i + 1, e \notin ToSet(new)
      PROVE  Len(new) >= K + 1 /\ e < new[1]
  <2>1. e # i
      BY <1>3, <1>6, <1>1 DEF ToSet
  <2>2. e < cursor
      BY <2>1, <1>6
  <2>3. CASE e \notin ToSet(seen)
    <3>1. Len(seen) >= K + 1 /\ e < seen[1]
        BY <2>2, <2>3, <1>a, <1>b
    <3>2. CASE drop = 0
        BY <3>1, <3>2, <1>1, <1>3, <1>0, SMTT(30)
    <3>3. CASE drop > 0
      <4>1. 1 + drop \in 1..Len(seen) /\ 1 \in 1..Len(seen)
          BY <3>3, <1>2, <1>0, <1>n
      <4>2. seen[1] + drop <= seen[1 + drop] /\ seen[1] \in Nat /\ seen[1 + drop] \in Nat
          BY <4>1, <1>0, <1>a, <1>b, SMTT(30)
      <4>3. new[1] = seen[1 + drop]
          BY <3>3, <1>2, <1>3, <1>n
      <4>4. Len(new) >= K + 1
          BY <3>3, <1>0, <1>2, <1>3, <1>n
      <4>5. e < seen[1 + drop]
          BY <3>1, <4>2, <1>0, SMTT(30)
      <4> QED BY <4>3, <4>4, <4>5
    <3> QED BY <3>2, <3>3, <1>0
  <2>4. CASE e \in ToSet(seen)
    <3>1. PICK k \in 1..Len(seen) : seen[k] = e
        BY <2>4 DEF ToSet
    <3>2. k <= drop
      <4> SUFFICES ASSUME k > drop PROVE FALSE
          BY <1>0
      <4>1. k - drop \in 1..Len(kept) /\ (k - drop) + drop = k
          BY <1>0, <1>n
      <4>2. new[k - drop] = e /\ k - drop \in 1..Len(new)
          BY <4>1, <1>3, <3>1, <1>n, SMTT(30)
      <4> QED BY <4>2, <1>6, <1>3 DEF ToSet
    <3>3. 1 + drop \in 1..Len(seen) /\ drop > 0
        BY <3>2, <1>2, <1>0, <1>n
    <3>4. seen[k] + ((1 + drop) - k) <= seen[1 + drop] /\ seen[1 + drop] \in Nat
        BY <3>2, <3>3, <1>0, <1>a, <1>b
    <3>5. new[1] = seen[1 + drop]
        BY <3>3, <1>2, <1>3, <1>n
    <3>6. Len(new) >= K + 1
        BY <3>3, <1>0, <1>2, <1>3, <1>n
    <3>7. e < seen[1 + drop]
      <4>1. k \in Nat /\ (1 + drop) - k >= 1 /\ (1 + drop) - k \in Int
          BY <3>2, <1>0
      <4> QED BY <3>1, <3>4, <4>1, SMTT(30)
    <3> QED BY <3>5, <3>6, <3>7
  <2> QED BY <2>3, <2>4
<1>7. DOMAIN new = 1..Len(new)
    BY <1>3
<1>8. Remembered(i + 1, new)
    BY <1>4, <1>5, <1>6, <1>7 DEF Remembered, K
<1> QED BY <1>3, <1>8 DEF new, kept

(* What a poll starts its loop with.                                         *)
LoopStart == [cursor |-> poll.cursor, seen |-> poll.seen, pending |-> batch.pending]

(* The loop before it handles event i. Among the events the page repeats     *)
(* nothing changes; after them the cursor is never ahead of the loop.        *)
LoopInv(state, i) ==
    /\ state \in LoopState
    /\ Remembered(state.cursor, state.seen)
    /\ InOrder(state.cursor, state.pending)
    /\ i <= poll.cursor => state = LoopStart
    /\ i >= poll.cursor => state.cursor <= i
    /\ poll.cursor <= state.cursor
    /\ state.cursor <= logged
    /\ \A e \in Event \ Rejected : e < i => e < state.cursor
    /\ \A e \in Event : e \in ToSet(batch.pending) => e \in ToSet(state.pending)
    /\ \A e \in Event : e \in ToSet(state.pending) =>
                            e \in ToSet(batch.pending) \/ e >= poll.cursor
    /\ \A e \in Event \ Rejected : e >= poll.cursor /\ e < state.cursor =>
                                       e \in ToSet(state.pending)

(* The elements of a queue that grew by one.                                 *)
LEMMA ToSetAppend ==
    ASSUME NEW S, NEW q \in Seq(S), NEW x \in S
    PROVE  ToSet(Append(q, x)) = ToSet(q) \cup {x}
<1>1. /\ Append(q, x) \in Seq(S) /\ Len(Append(q, x)) = Len(q) + 1 /\ Len(q) \in Nat
      /\ \A k \in 1..Len(q) : Append(q, x)[k] = q[k]
      /\ Append(q, x)[Len(q) + 1] = x
    OBVIOUS
<1>2. DOMAIN q = 1..Len(q) /\ DOMAIN Append(q, x) = 1..(Len(q) + 1)
    BY <1>1
<1> QED BY <1>1, <1>2 DEF ToSet

(* An event that is not before the cursor goes to the end of the queue.      *)
LEMMA InOrderAppend ==
    ASSUME NEW cursor \in 0..MaxEvents, NEW q \in Seq(Event), InOrder(cursor, q),
           NEW i \in Event \ Rejected, cursor <= i
    PROVE  Append(q, i) \in Seq(Event) /\ InOrder(i + 1, Append(q, i))
<1> DEFINE new == Append(q, i)
<1>1. /\ new \in Seq(Event) /\ Len(new) = Len(q) + 1 /\ Len(q) \in Nat
      /\ \A k \in 1..Len(q) : new[k] = q[k] /\ q[k] \in Event
      /\ new[Len(q) + 1] = i /\ DOMAIN new = 1..(Len(q) + 1) /\ DOMAIN q = 1..Len(q)
    OBVIOUS
<1>2. i \in Nat /\ cursor \in Nat /\ \A k \in 1..Len(q) : q[k] \in Nat
    BY <1>1, RelayerConstants
<1> HIDE DEF new
<1>3. ASSUME NEW j \in DOMAIN new, NEW k \in DOMAIN new, j < k PROVE new[j] < new[k]
  <2>1. CASE k = Len(q) + 1
    <3>1. j \in 1..Len(q) /\ new[k] = i
        BY <1>1, <1>3, <2>1
    <3> QED BY <3>1, <1>1, <1>2 DEF InOrder
  <2>2. CASE k # Len(q) + 1
    <3>1. j \in 1..Len(q) /\ k \in 1..Len(q)
        BY <1>1, <1>3, <2>2
    <3> QED BY <3>1, <1>1, <1>3 DEF InOrder, Ascending
  <2> QED BY <2>1, <2>2
<1>4. ASSUME NEW k \in DOMAIN new PROVE new[k] < i + 1 /\ new[k] \notin Rejected
  <2>1. CASE k = Len(q) + 1
      BY <1>1, <1>2, <2>1
  <2>2. CASE k # Len(q) + 1
    <3>1. k \in 1..Len(q)
        BY <1>1, <2>2
    <3> QED BY <3>1, <1>1, <1>2 DEF InOrder
  <2> QED BY <2>1, <2>2
<1> QED BY <1>1, <1>3, <1>4 DEF InOrder, Ascending, new

(* One event of the page: a rejected one changes nothing, a repeated one is  *)
(* remembered, any other one is registered and collected.                    *)
LEMMA CollectedKeeps ==
    ASSUME OverlapRemembered, RelayerTyped, NEW i \in Event, i < logged,
           i >= poll.cursor - Overlap, NEW state, LoopInv(state, i)
    PROVE  LoopInv(Collected(state, i), i + 1)
<1> DEFINE new == Collected(state, i)
           c == state.cursor
<1>1. /\ c \in 0..MaxEvents /\ c \in Nat /\ i \in Nat /\ i + 1 <= MaxEvents
      /\ poll.cursor \in Nat /\ logged \in Nat /\ Overlap \in Nat
      /\ state.seen \in Seq(Event) /\ state.pending \in Seq(Event)
      /\ state = [cursor |-> c, seen |-> state.seen, pending |-> state.pending]
    BY RelayerConstants DEF LoopInv, LoopState, RelayerTyped
<1>2. CASE i \in Rejected
  <2>1. new = state
      BY <1>2 DEF Collected
  <2>2. i < poll.cursor => state = LoopStart
      BY <1>1 DEF LoopInv
  <2>3. i # poll.cursor \/ c <= i
      BY <1>1 DEF LoopInv
  <2>4. /\ i + 1 <= poll.cursor => state = LoopStart
        /\ i + 1 >= poll.cursor => c <= i + 1
    <3>1. CASE i >= poll.cursor
        BY <3>1, <1>1 DEF LoopInv
    <3>2. CASE i < poll.cursor
      <4>1. c = poll.cursor
          BY <3>2, <2>2 DEF LoopStart
      <4> QED BY <3>2, <2>2, <4>1, <1>1
    <3> QED BY <3>1, <3>2, <1>1
  <2>5. \A e \in Event \ Rejected : e < i + 1 => e < c
      BY <1>1, <1>2, RelayerConstants DEF LoopInv
  <2> HIDE DEF new
  <2> QED BY <2>1, <2>4, <2>5 DEF LoopInv, new
<1>3. CASE i \notin Rejected /\ i < poll.cursor
  <2>1. state = LoopStart /\ c = poll.cursor /\ state.seen = poll.seen
      BY <1>3, <1>1 DEF LoopInv, LoopStart
  <2>2. i \in ToSet(state.seen)
    <3> SUFFICES ASSUME i \notin ToSet(state.seen) PROVE FALSE
        OBVIOUS
    <3> DEFINE s == state.seen
    <3>1. Len(s) >= MaxDedupSize - MaxDedupSize \div 2 + 1 /\ i < s[1]
        BY <1>3, <2>1 DEF LoopInv, Remembered
    <3>2. Len(s) \in Nat /\ Len(s) >= 1 /\ Len(s) >= Overlap
      <4> DEFINE K == MaxDedupSize - MaxDedupSize \div 2 + 1
      <4>1. Len(s) \in Nat
          BY <1>1
      <4>2. K \in Nat /\ K >= 1
          BY RelayerConstants
      <4>3. Overlap <= K
          BY DEF OverlapRemembered
      <4>4. Len(s) >= K
          BY <3>1
      <4> HIDE DEF s, K
      <4> QED BY <4>1, <4>2, <4>3, <4>4, <1>1
    <3>3. /\ 1 \in DOMAIN s /\ Len(s) \in DOMAIN s
          /\ s[1] \in Nat /\ s[Len(s)] \in Nat
        BY <3>2, <1>1, RelayerConstants, SMTT(30)
    <3>4. s[1] + (Len(s) - 1) <= s[Len(s)] /\ s[Len(s)] < c
        BY <3>2, <3>3 DEF LoopInv, Remembered
    <3> HIDE DEF s
    <3> QED BY <3>1, <3>2, <3>3, <3>4, <2>1, <1>1, SMTT(30)
  <2>3. CursorAfter(c, i) = c
    <3>1. Max({c, i + 1}) = IF c >= i + 1 THEN c ELSE i + 1
      <4> HIDE DEF c
      <4> QED BY <1>1, MaxOfTwo
    <3> QED BY <3>1, <1>1, <1>3, <2>1 DEF CursorAfter
  <2>4. new = state
      BY <1>1, <1>3, <2>2, <2>3 DEF Collected
  <2>5. \A e \in Event \ Rejected : e < i + 1 => e < c
      BY <1>1, <1>3, <2>1, RelayerConstants
  <2> HIDE DEF new
  <2> QED BY <1>1, <1>3, <2>1, <2>4, <2>5 DEF LoopInv, new
<1>4. CASE i \notin Rejected /\ i >= poll.cursor
  <2>1. c <= i /\ poll.cursor <= c
      BY <1>4 DEF LoopInv
  <2>2. i \notin ToSet(state.seen)
    <3>1. \A k \in DOMAIN state.seen : state.seen[k] < c /\ state.seen[k] \in Nat
        BY <1>1, RelayerConstants DEF LoopInv, Remembered
    <3> QED BY <3>1, <2>1, <1>1 DEF ToSet
  <2>3. CursorAfter(c, i) = i + 1
    <3>1. Max({c, i + 1}) = IF c >= i + 1 THEN c ELSE i + 1
      <4> HIDE DEF c
      <4> QED BY <1>1, MaxOfTwo
    <3> QED BY <3>1, <1>1, <2>1 DEF CursorAfter
  <2>4. new = [cursor |-> i + 1, seen |-> Append(Trimmed(state.seen), i),
               pending |-> Append(state.pending, i)]
      BY <1>4, <2>2, <2>3 DEF Collected
  <2>5. /\ Append(Trimmed(state.seen), i) \in Seq(Event)
        /\ Remembered(i + 1, Append(Trimmed(state.seen), i))
      BY <1>1, <1>4, <2>1, Registered DEF LoopInv
  <2>6. Append(state.pending, i) \in Seq(Event) /\ InOrder(i + 1, Append(state.pending, i))
      BY <1>1, <1>4, <2>1, InOrderAppend DEF LoopInv
  <2>7. ToSet(Append(state.pending, i)) = ToSet(state.pending) \cup {i}
      BY <1>1, ToSetAppend
  <2>8. new.cursor = i + 1 /\ new.seen = Append(Trimmed(state.seen), i)
        /\ new.pending = Append(state.pending, i)
      BY <2>4
  <2>9. new \in LoopState
      BY <2>4, <2>5, <2>6, <1>1 DEF LoopState
  <2> HIDE DEF new
  <2>10. \A e \in Event \ Rejected : e < i + 1 => e < new.cursor
      BY <2>8
  <2>11. \A e \in Event : e \in ToSet(batch.pending) => e \in ToSet(new.pending)
      BY <2>7, <2>8 DEF LoopInv
  <2>12. \A e \in Event : e \in ToSet(new.pending) =>
                            e \in ToSet(batch.pending) \/ e >= poll.cursor
      BY <1>4, <2>7, <2>8 DEF LoopInv
  <2>13. ASSUME NEW e \in Event \ Rejected, e >= poll.cursor, e < new.cursor
         PROVE  e \in ToSet(new.pending)
    <3>1. e = i \/ e < i
        BY <2>8, <2>13, <1>1, RelayerConstants, SMTT(30)
    <3>2. e < i => e < c
        BY DEF LoopInv
    <3> QED BY <3>1, <3>2, <2>7, <2>8, <2>13 DEF LoopInv
  <2>14. /\ ~(i + 1 <= poll.cursor) /\ new.cursor <= i + 1
         /\ poll.cursor <= new.cursor /\ new.cursor <= logged
      BY <1>1, <1>4, <2>8
  <2>15. Remembered(new.cursor, new.seen) /\ InOrder(new.cursor, new.pending)
      BY <2>5, <2>6, <2>8
  <2> QED BY <2>9, <2>10, <2>11, <2>12, <2>13, <2>14, <2>15 DEF LoopInv, new
<1> QED BY <1>1, <1>2, <1>3, <1>4

(* Handling one event leads from states of the loop to states of the loop.   *)
LEMMA CollectedTyped ==
    ASSUME NEW state \in LoopState, NEW e \in Event
    PROVE  Collected(state, e) \in LoopState
<1>1. /\ state.cursor \in 0..MaxEvents /\ state.seen \in Seq(Event)
      /\ state.pending \in Seq(Event)
      /\ state = [cursor |-> state.cursor, seen |-> state.seen, pending |-> state.pending]
    BY DEF LoopState
<1>2. e \in Nat /\ e + 1 \in 0..MaxEvents /\ MaxEvents \in Nat
    BY RelayerConstants
<1>3. CursorAfter(state.cursor, e) \in 0..MaxEvents
  <2>1. Max({state.cursor, e + 1}) = IF state.cursor >= e + 1 THEN state.cursor ELSE e + 1
      BY <1>1, <1>2, MaxOfTwo
  <2> QED BY <2>1, <1>1, <1>2 DEF CursorAfter
<1>4. Append(Trimmed(state.seen), e) \in Seq(Event)
  <2>1. CASE Len(state.seen) < MaxDedupSize
      BY <2>1, <1>1 DEF Trimmed
  <2>2. CASE ~(Len(state.seen) < MaxDedupSize)
    <3> DEFINE s == state.seen  n == Len(s)  h == n \div 2 + 1
    <3>1. n \in Nat /\ h \in 1..(n + 1)
        BY <1>1
    <3>2. Trimmed(s) = SubSeq(s, h, n)
        BY <2>2 DEF Trimmed
    <3>3. s \in Seq(Event) /\ n = Len(s) /\ n \in (h - 1)..Len(s)
        BY <1>1, <3>1
    <3> HIDE DEF s, h, n
    <3>4. SubSeq(s, h, n) \in Seq(Event)
        BY <3>1, <3>3, SubSeqProperties
    <3> QED BY <3>2, <3>4 DEF s
  <2> QED BY <2>1, <2>2
<1>5. Append(state.pending, e) \in Seq(Event)
    BY <1>1
<1>6. [state EXCEPT !.cursor = CursorAfter(@, e)]
         = [cursor |-> CursorAfter(state.cursor, e), seen |-> state.seen,
            pending |-> state.pending]
    BY <1>1
<1> QED BY <1>1, <1>3, <1>4, <1>5, <1>6 DEF Collected, LoopState

(* The loop is well defined: what it leaves of the last n events follows     *)
(* from what it leaves of the last n - 1.                                    *)
LEMMA LoopDefined ==
    ASSUME NEW page \in Seq(Event)
    PROVE  \E rest \in [0..Len(page) -> [LoopState -> LoopState]] :
              /\ AfterPage(page) = rest[Len(page)][LoopStart]
              /\ \A state \in LoopState : rest[0][state] = state
              /\ \A n \in 1..Len(page) : \A state \in LoopState :
                    rest[n][state]
                      = rest[n - 1][Collected(state, page[Len(page) - n + 1])]
<1> DEFINE N == Len(page)
           S == [LoopState -> LoopState]
           a == [state \in LoopState |-> state]
           step == [p \in (1..N) \X S |->
                      [state \in LoopState |-> p[2][Collected(state, page[N - p[1] + 1])]]]
           Body(f) == [n \in 0..N |-> [state \in LoopState |->
                          IF n = 0 THEN state
                          ELSE f[n - 1][Collected(state, page[N - n + 1])]]]
<1>1. N \in Nat /\ \A k \in 1..N : page[N - k + 1] \in Event
    OBVIOUS
<1>2. a \in S
    OBVIOUS
<1>3. step \in [(1..N) \X S -> S]
  <2> SUFFICES ASSUME NEW k \in 1..N, NEW g \in S
               PROVE  [state \in LoopState |-> g[Collected(state, page[N - k + 1])]] \in S
      OBVIOUS
  <2>1. ASSUME NEW state \in LoopState PROVE g[Collected(state, page[N - k + 1])] \in LoopState
      BY <1>1, CollectedTyped
  <2> QED BY <2>1
<1>4. PICK f : Iterates(f, N, S, a, step)
  <2>1. N \in Nat
      BY <1>1
  <2> HIDE DEF N, S, a, step
  <2> QED BY <2>1, <1>2, <1>3, IterationExists, Zenon
<1>f. f \in [0..N -> S] /\ f[0] = a /\ \A k \in 1..N : f[k] = step[<<k, f[k - 1]>>]
  <2> HIDE DEF N, S, a, step
  <2> QED BY <1>4, Zenon DEF Iterates
<1>5. \A k \in 1..N : f[k] = [state \in LoopState |->
                                f[k - 1][Collected(state, page[N - k + 1])]]
  <2> SUFFICES ASSUME NEW k \in 1..N
               PROVE  f[k] = [state \in LoopState |->
                                f[k - 1][Collected(state, page[N - k + 1])]]
      OBVIOUS
  <2>1. k - 1 \in 0..N /\ f[k - 1] \in S
    <3> HIDE DEF N, S
    <3> QED BY <1>1, <1>f
  <2>2. <<k, f[k - 1]>> \in (1..N) \X S
      BY <2>1
  <2> HIDE DEF S
  <2> QED BY <2>2, <1>f
<1>6. f = Body(f)
  <2>1. ASSUME NEW n \in 0..N PROVE f[n] = Body(f)[n]
    <3>1. CASE n = 0
        BY <3>1, <1>f
    <3>2. CASE n # 0
      <4>1. n \in 1..N
          BY <3>2, <1>1
      <4> QED BY <4>1, <3>2, <1>5
    <3> QED BY <3>1, <3>2
  <2>2. f = [n \in 0..N |-> f[n]]
      BY <1>f
  <2>3. Body(f) = [n \in 0..N |-> Body(f)[n]]
      OBVIOUS
  <2> HIDE DEF Body
  <2> QED BY <2>1, <2>2, <2>3
<1> DEFINE rest == CHOOSE g : g = Body(g)
<1>7. AfterPage(page) = rest[N][LoopStart]
    BY DEF AfterPage, LoopStart
<1>8. rest = Body(rest)
  <2> HIDE DEF Body
  <2> QED BY <1>6
<1> HIDE DEF rest
<1>9. /\ \A state \in LoopState : rest[0][state] = state
      /\ \A n \in 1..N : \A state \in LoopState :
            rest[n][state] = rest[n - 1][Collected(state, page[N - n + 1])]
  <2>1. ASSUME NEW n \in 0..N, NEW state \in LoopState
        PROVE rest[n][state] = IF n = 0 THEN state
                               ELSE rest[n - 1][Collected(state, page[N - n + 1])]
    <3> HIDE DEF N
    <3>1. rest[n] = Body(rest)[n]
      <4> HIDE DEF Body
      <4> QED BY <1>8
    <3> QED BY <3>1
  <2>2. 0 \in 0..N /\ \A n \in 1..N : n \in 0..N /\ n # 0
      BY <1>1
  <2> HIDE DEF N
  <2> QED BY <2>1, <2>2
<1>10. rest \in [0..N -> S]
  <2> DEFINE T == {n \in Nat : n <= N => rest[n] \in S}
  <2>1. rest[0] \in S
    <3>1. rest[0] = [state \in LoopState |-> state]
      <4>1. 0 \in 0..N
          BY <1>1
      <4> QED BY <1>8, <4>1
    <3> QED BY <3>1
  <2>2. ASSUME NEW n \in T PROVE n + 1 \in T
    <3> SUFFICES ASSUME n + 1 <= N PROVE rest[n + 1] \in S
        OBVIOUS
    <3>1. n + 1 \in 0..N /\ n + 1 # 0 /\ (n + 1) - 1 = n /\ n + 1 \in 1..N
        BY <1>1
    <3>2. rest[n + 1] = [state \in LoopState |-> rest[n][Collected(state, page[N - (n + 1) + 1])]]
        BY <1>8, <3>1
    <3>3. rest[n] \in S
        BY <1>1
    <3>4. page[N - (n + 1) + 1] \in Event
        BY <1>1, <3>1
    <3>5. ASSUME NEW state \in LoopState
          PROVE  rest[n][Collected(state, page[N - (n + 1) + 1])] \in LoopState
        BY <3>3, <3>4, CollectedTyped
    <3> QED BY <3>2, <3>5
  <2>3. 0 \in T
      BY <2>1
  <2>4. \A n \in Nat : n \in T
    <3> HIDE DEF T
    <3>1. T \in SUBSET Nat
        BY DEF T
    <3> QED BY <2>2, <2>3, <3>1, NatSetInduction
  <2>5. \A n \in 0..N : rest[n] \in S
      BY <2>4, <1>1
  <2>6. rest = [n \in 0..N |-> rest[n]]
    <3>1. DOMAIN rest = 0..N /\ rest = [n \in DOMAIN rest |-> rest[n]]
        BY <1>8
    <3> QED BY <3>1
  <2> HIDE DEF S
  <2> QED BY <2>5, <2>6
<1> QED BY <1>7, <1>9, <1>10

(* The page: consecutive events, from the first one asked for on.            *)
LEMMA PageIs ==
    ASSUME RelayerTyped
    PROVE  /\ FirstIndex \in Nat /\ FirstIndex <= poll.cursor
           /\ FirstIndex >= poll.cursor - Overlap
           /\ Page \in Seq(Event) /\ Len(Page) \in Nat
           /\ FirstIndex + Len(Page) <= logged
           /\ \A k \in 1..Len(Page) : Page[k] = FirstIndex + k - 1
<1> DEFINE F == FirstIndex
           m == Min({PageSize, logged - F})
<1>1. poll.cursor \in Nat /\ logged \in Nat /\ Overlap \in Nat /\ PageSize \in Nat
      /\ poll.cursor <= logged /\ logged <= MaxEvents /\ MaxEvents \in Nat
    BY RelayerConstants DEF RelayerTyped
<1>2. F \in Nat /\ F <= poll.cursor /\ F >= poll.cursor - Overlap
    BY <1>1 DEF FirstIndex
<1> HIDE DEF F
<1>3. m \in Nat /\ F + m <= logged
  <2>1. logged - F \in Nat
      BY <1>1, <1>2
  <2>2. m = IF PageSize <= logged - F THEN PageSize ELSE logged - F
      BY <2>1, <1>1, MinOfTwo
  <2> HIDE DEF m
  <2> QED BY <2>1, <2>2, <1>1, <1>2
<1>4. Page = [k \in 1..m |-> F + k - 1]
    BY DEF Page, F
<1> HIDE DEF m
<1>5. \A k \in 1..m : F + k - 1 \in Event
    BY <1>1, <1>2, <1>3, RelayerConstants
<1>6. Page \in Seq(Event) /\ Len(Page) = m /\ \A k \in 1..m : Page[k] = F + k - 1
    BY <1>3, <1>4, <1>5
<1> QED BY <1>2, <1>3, <1>6 DEF F

(* What the loop over the page leaves.                                       *)
LEMMA PageLoop ==
    ASSUME OverlapRemembered, RelayerTyped, LoopInv(LoopStart, FirstIndex)
    PROVE  LoopInv(AfterPage(Page), FirstIndex + Len(Page))
<1> DEFINE N == Len(Page)  F == FirstIndex
<1>1. /\ F \in Nat /\ F <= poll.cursor /\ F >= poll.cursor - Overlap
      /\ Page \in Seq(Event) /\ N \in Nat /\ F + N <= logged
      /\ \A k \in 1..N : Page[k] = F + k - 1
      /\ poll.cursor \in Nat /\ Overlap \in Nat /\ logged \in Nat /\ logged <= MaxEvents
    BY PageIs, RelayerConstants DEF RelayerTyped
<1>2. PICK rest \in [0..N -> [LoopState -> LoopState]] :
          /\ AfterPage(Page) = rest[N][LoopStart]
          /\ \A state \in LoopState : rest[0][state] = state
          /\ \A n \in 1..N : \A state \in LoopState :
                rest[n][state] = rest[n - 1][Collected(state, Page[N - n + 1])]
    BY <1>1, LoopDefined
<1> HIDE DEF N, F
<1> DEFINE Good(n) == \A state \in LoopState :
                          LoopInv(state, F + (N - n)) => LoopInv(rest[n][state], F + N)
           T == {n \in Nat : n <= N => Good(n)}
<1>3. 0 \in T
  <2>1. F + (N - 0) = F + N
      BY <1>1
  <2> QED BY <1>2, <2>1
<1>4. ASSUME NEW n \in T PROVE n + 1 \in T
  <2> SUFFICES ASSUME n + 1 <= N, NEW state \in LoopState, LoopInv(state, F + (N - (n + 1)))
               PROVE  LoopInv(rest[n + 1][state], F + N)
      OBVIOUS
  <2> DEFINE i == F + (N - (n + 1))
             next == Collected(state, i)
  <2>1. /\ n \in Nat /\ n + 1 \in 1..N /\ (n + 1) - 1 = n /\ n <= N
        /\ N - (n + 1) + 1 \in 1..N /\ F + (N - (n + 1) + 1) - 1 = i
        /\ i + 1 = F + (N - n)
      BY <1>1
  <2>2. Page[N - (n + 1) + 1] = i
      BY <1>1, <2>1
  <2>3. i \in Event /\ i < logged /\ i >= poll.cursor - Overlap
    <3>1. i \in Nat /\ i < F + N /\ i >= F
        BY <1>1, <2>1
    <3> HIDE DEF i
    <3>2. i < logged /\ i < MaxEvents
        BY <3>1, <1>1, RelayerConstants
    <3>3. i >= poll.cursor - Overlap
        BY <3>1, <1>1
    <3> QED BY <3>1, <3>2, <3>3, RelayerConstants
  <2>4. rest[n + 1][state] = rest[n][next]
      BY <1>2, <2>1, <2>2
  <2>5. LoopInv(next, i + 1)
    <3> HIDE DEF i
    <3>1. LoopInv(state, i)
        BY DEF i
    <3> QED BY <2>3, <3>1, CollectedKeeps
  <2>6. next \in LoopState
    <3> HIDE DEF next, i
    <3> QED BY <2>5 DEF LoopInv
  <2> HIDE DEF next, i
  <2>7. LoopInv(rest[n][next], F + N)
      BY <2>1, <2>5, <2>6
  <2> QED BY <2>4, <2>7
<1>5. \A n \in Nat : n \in T
  <2> HIDE DEF T
  <2>1. T \in SUBSET Nat
      BY DEF T
  <2> QED BY <1>3, <1>4, <2>1, NatSetInduction
<1>6. Good(N)
    BY <1>1, <1>5
<1>7. LoopInv(LoopStart, F + (N - N)) /\ LoopStart \in LoopState
  <2>1. F + (N - N) = FirstIndex
      BY <1>1 DEF F
  <2>2. LoopStart \in LoopState
      BY DEF LoopInv
  <2> QED BY <2>1, <2>2
<1> QED BY <1>2, <1>6, <1>7 DEF F, N

-----------------------------------------------------------------------------
(* The queues.                                                               *)

(* What is kept of a batch follows from what is kept of its first events.    *)
LEMMA ProvableDefined ==
    ASSUME NEW q \in Seq(Event)
    PROVE  \E kept \in [0..Len(q) -> Seq(Event)] :
              /\ Provable(q) = kept[Len(q)]
              /\ kept[0] = <<>>
              /\ \A k \in 1..Len(q) :
                    kept[k] = IF q[k] \in Unprovable THEN kept[k - 1]
                              ELSE Append(kept[k - 1], q[k])
<1> DEFINE N == Len(q)
           S == Seq(Event)
           step == [p \in (1..N) \X S |->
                      IF q[p[1]] \in Unprovable THEN p[2] ELSE Append(p[2], q[p[1]])]
           Body(f) == [k \in 0..N |-> IF k = 0 THEN <<>>
                                      ELSE IF q[k] \in Unprovable THEN f[k - 1]
                                           ELSE Append(f[k - 1], q[k])]
<1>1. N \in Nat /\ \A k \in 1..N : q[k] \in Event
    OBVIOUS
<1>2. <<>> \in S
    OBVIOUS
<1>3. step \in [(1..N) \X S -> S]
  <2> SUFFICES ASSUME NEW k \in 1..N, NEW t \in S
               PROVE  (IF q[k] \in Unprovable THEN t ELSE Append(t, q[k])) \in S
      OBVIOUS
  <2> QED BY <1>1
<1>4. PICK f : Iterates(f, N, S, <<>>, step)
  <2>1. N \in Nat
      BY <1>1
  <2> HIDE DEF N, S, step
  <2> QED BY <2>1, <1>2, <1>3, IterationExists, Zenon
<1>f. f \in [0..N -> S] /\ f[0] = <<>> /\ \A k \in 1..N : f[k] = step[<<k, f[k - 1]>>]
  <2> HIDE DEF N, S, step
  <2> QED BY <1>4, Zenon DEF Iterates
<1>5. \A k \in 1..N : f[k] = IF q[k] \in Unprovable THEN f[k - 1] ELSE Append(f[k - 1], q[k])
  <2> SUFFICES ASSUME NEW k \in 1..N
               PROVE  f[k] = IF q[k] \in Unprovable THEN f[k - 1] ELSE Append(f[k - 1], q[k])
      OBVIOUS
  <2>1. k - 1 \in 0..N /\ f[k - 1] \in S
    <3> HIDE DEF N, S
    <3> QED BY <1>1, <1>f
  <2>2. <<k, f[k - 1]>> \in (1..N) \X S
      BY <2>1
  <2> HIDE DEF S, N
  <2> QED BY <2>2, <1>f
<1>6. f = Body(f)
  <2>1. ASSUME NEW n \in 0..N PROVE f[n] = Body(f)[n]
    <3>1. CASE n = 0
        BY <3>1, <1>f
    <3>2. CASE n # 0
      <4>1. n \in 1..N
          BY <3>2, <1>1
      <4> HIDE DEF N
      <4> QED BY <4>1, <3>2, <1>5
    <3> QED BY <3>1, <3>2
  <2>2. f = [n \in 0..N |-> f[n]]
      BY <1>f
  <2>3. Body(f) = [n \in 0..N |-> Body(f)[n]]
      OBVIOUS
  <2> HIDE DEF Body
  <2> QED BY <2>1, <2>2, <2>3
<1> DEFINE kept == CHOOSE g : g = Body(g)
<1>7. Provable(q) = kept[N]
    BY DEF Provable
<1>8. kept = Body(kept)
  <2> HIDE DEF Body
  <2> QED BY <1>6
<1> HIDE DEF kept
<1>9. kept[0] = <<>> /\ \A k \in 1..N :
        kept[k] = IF q[k] \in Unprovable THEN kept[k - 1] ELSE Append(kept[k - 1], q[k])
  <2>1. ASSUME NEW k \in 0..N PROVE kept[k] = Body(kept)[k]
    <3> HIDE DEF Body
    <3> QED BY <1>8
  <2>2. 0 \in 0..N /\ \A n \in 1..N : n \in 0..N /\ n # 0
      BY <1>1
  <2> HIDE DEF N
  <2> QED BY <2>1, <2>2
<1>10. kept \in [0..N -> S]
  <2> DEFINE T == {n \in Nat : n <= N => kept[n] \in S}
  <2> HIDE DEF N
  <2>1. 0 \in T
      BY <1>9, <1>2
  <2>2. ASSUME NEW n \in T PROVE n + 1 \in T
    <3> SUFFICES ASSUME n + 1 <= N PROVE kept[n + 1] \in S
        OBVIOUS
    <3>1. n + 1 \in 1..N /\ (n + 1) - 1 = n /\ kept[n] \in S
        BY <1>1
    <3>2. kept[n + 1] = IF q[n + 1] \in Unprovable THEN kept[n] ELSE Append(kept[n], q[n + 1])
        BY <3>1, <1>9
    <3> QED BY <3>1, <3>2, <1>1
  <2>3. \A n \in Nat : n \in T
    <3> HIDE DEF T
    <3>1. T \in SUBSET Nat
        BY DEF T
    <3> QED BY <2>1, <2>2, <3>1, NatSetInduction
  <2>4. \A n \in 0..N : kept[n] \in S
      BY <2>3, <1>1
  <2>5. kept = [n \in 0..N |-> kept[n]]
    <3>1. DOMAIN kept = 0..N /\ kept = [n \in DOMAIN kept |-> kept[n]]
        BY <1>8
    <3> QED BY <3>1
  <2> HIDE DEF S
  <2> QED BY <2>4, <2>5
<1> QED BY <1>7, <1>9, <1>10

(* A batch keeps its provable events, in their order.                        *)
LEMMA ProvableKeeps ==
    ASSUME NEW cursor \in Nat, NEW q \in Seq(Event), InOrder(cursor, q)
    PROVE  /\ Provable(q) \in Seq(Event)
           /\ InOrder(cursor, Provable(q))
           /\ ToSet(Provable(q)) = ToSet(q) \ Unprovable
<1> DEFINE N == Len(q)
<1>1. N \in Nat /\ DOMAIN q = 1..N /\ \A k \in 1..N : q[k] \in Event /\ q[k] \in Nat
    BY RelayerConstants
<1>2. PICK kept \in [0..N -> Seq(Event)] :
          /\ Provable(q) = kept[N]
          /\ kept[0] = <<>>
          /\ \A k \in 1..N : kept[k] = IF q[k] \in Unprovable THEN kept[k - 1]
                                       ELSE Append(kept[k - 1], q[k])
    BY ProvableDefined
<1> HIDE DEF N
<1> DEFINE Good(n) == /\ Ascending(kept[n])
                      /\ ToSet(kept[n]) = {q[j] : j \in 1..n} \ Unprovable
           T == {n \in Nat : n <= N => Good(n)}
<1>3. 0 \in T
  <2>1. kept[0] = <<>> /\ DOMAIN kept[0] = {}
      BY <1>2
  <2>2. Ascending(kept[0])
      BY <2>1 DEF Ascending
  <2>3. ToSet(kept[0]) = {} /\ {q[j] : j \in 1..0} = {}
      BY <2>1 DEF ToSet
  <2> QED BY <2>2, <2>3
<1>4. ASSUME NEW n \in T PROVE n + 1 \in T
  <2> SUFFICES ASSUME n + 1 <= N PROVE Good(n + 1)
      OBVIOUS
  <2>1. n \in Nat /\ n + 1 \in 1..N /\ (n + 1) - 1 = n /\ n \in 0..N /\ n <= N
      BY <1>1
  <2> DEFINE x == q[n + 1]  old == kept[n]
  <2>2. old \in Seq(Event) /\ Ascending(old) /\ x \in Event /\ x \in Nat
        /\ ToSet(old) = {q[j] : j \in 1..n} \ Unprovable
      BY <2>1, <1>1, <1>2
  <2>3. kept[n + 1] = IF x \in Unprovable THEN old ELSE Append(old, x)
      BY <2>1, <1>2
  <2>4. {q[j] : j \in 1..(n + 1)} = {q[j] : j \in 1..n} \cup {x}
    <3>1. 1..(n + 1) = (1..n) \cup {n + 1}
        BY <2>1
    <3> QED BY <3>1
  <2>5. \A j \in 1..n : q[j] < x
    <3> HIDE DEF T
    <3> SUFFICES ASSUME NEW j \in 1..n PROVE q[j] < q[n + 1]
        OBVIOUS
    <3>1. j \in DOMAIN q /\ n + 1 \in DOMAIN q /\ j < n + 1
        BY <1>1, <2>1
    <3> QED BY <3>1 DEF InOrder, Ascending
  <2> HIDE DEF x, old
  <2>6. CASE x \in Unprovable
    <3> DEFINE A == {q[j] : j \in 1..n}
    <3>1. (A \cup {x}) \ Unprovable = A \ Unprovable
      <4> HIDE DEF A
      <4> QED BY <2>6
    <3>2. kept[n + 1] = old
        BY <2>3, <2>6
    <3> QED BY <2>2, <2>4, <3>1, <3>2
  <2>7. CASE x \notin Unprovable
    <3>1. ToSet(Append(old, x)) = ToSet(old) \cup {x}
        BY <2>2, ToSetAppend
    <3>2. \A k \in DOMAIN old : old[k] < x
        BY <2>2, <2>5 DEF ToSet
    <3>3. Ascending(Append(old, x))
      <4>1. /\ Len(old) \in Nat /\ DOMAIN old = 1..Len(old)
            /\ DOMAIN Append(old, x) = 1..(Len(old) + 1)
            /\ \A k \in 1..Len(old) : Append(old, x)[k] = old[k]
            /\ Append(old, x)[Len(old) + 1] = x
          BY <2>2
      <4> DEFINE new == Append(old, x)
      <4> HIDE DEF new
      <4>2. ASSUME NEW j \in DOMAIN new, NEW k \in DOMAIN new, j < k PROVE new[j] < new[k]
        <5>1. CASE k = Len(old) + 1
          <6>1. j \in 1..Len(old)
              BY <5>1, <4>1, <4>2 DEF new
          <6> QED BY <6>1, <5>1, <4>1, <3>2 DEF new
        <5>2. CASE k # Len(old) + 1
          <6>1. j \in 1..Len(old) /\ k \in 1..Len(old)
              BY <5>2, <4>1, <4>2 DEF new
          <6>2. new[j] = old[j] /\ new[k] = old[k]
              BY <6>1, <4>1 DEF new
          <6> QED BY <6>1, <6>2, <4>1, <4>2, <2>2 DEF Ascending
        <5> QED BY <5>1, <5>2
      <4> QED BY <4>2 DEF Ascending, new
    <3> QED BY <2>2, <2>3, <2>4, <2>7, <3>1, <3>3
  <2> QED BY <2>6, <2>7
<1>5. \A n \in Nat : n \in T
  <2> HIDE DEF T
  <2>1. T \in SUBSET Nat
      BY DEF T
  <2> QED BY <1>3, <1>4, <2>1, NatSetInduction
<1>6. Good(N)
  <2>1. N \in T /\ N <= N
    <3> HIDE DEF T
    <3> QED BY <1>1, <1>5
  <2> HIDE DEF Good
  <2> QED BY <2>1
<1>7. Provable(q) \in Seq(Event)
    BY <1>1, <1>2
<1>8. ToSet(q) = {q[j] : j \in 1..N}
    BY <1>1 DEF ToSet
<1>9. ToSet(Provable(q)) = ToSet(q) \ Unprovable
  <2>1. Provable(q) = kept[N]
      BY <1>2
  <2>2. ToSet(kept[N]) = {q[j] : j \in 1..N} \ Unprovable
      BY <1>6
  <2> QED BY <2>1, <2>2, <1>8
<1>10. \A k \in DOMAIN Provable(q) : Provable(q)[k] < cursor /\ Provable(q)[k] \notin Rejected
  <2> SUFFICES ASSUME NEW k \in DOMAIN Provable(q)
               PROVE  Provable(q)[k] < cursor /\ Provable(q)[k] \notin Rejected
      OBVIOUS
  <2>1. Provable(q)[k] \in ToSet(q)
      BY <1>9 DEF ToSet
  <2>2. PICK j \in DOMAIN q : Provable(q)[k] = q[j]
      BY <2>1 DEF ToSet
  <2> QED BY <2>2 DEF InOrder
<1> QED BY <1>2, <1>6, <1>7, <1>9, <1>10 DEF InOrder

(* A queue without its first element.                                        *)
LEMMA TailIs ==
    ASSUME NEW S, NEW q \in Seq(S), q # <<>>
    PROVE  /\ Len(q) \in Nat \ {0} /\ DOMAIN q = 1..Len(q)
           /\ Head(q) = q[1] /\ Head(q) \in S /\ Tail(q) \in Seq(S)
           /\ DOMAIN Tail(q) = 1..(Len(q) - 1)
           /\ \A k \in 1..(Len(q) - 1) : Tail(q)[k] = q[k + 1]
<1>1. Len(q) \in Nat /\ Len(q) # 0 /\ DOMAIN q = 1..Len(q)
    BY EmptySeq
<1>2. /\ Tail(q) \in Seq(S) /\ Len(Tail(q)) = Len(q) - 1
      /\ \A k \in 1..Len(Tail(q)) : Tail(q)[k] = q[k + 1]
      /\ DOMAIN Tail(q) = 1..Len(Tail(q))
    BY <1>1
<1>3. Head(q) = q[1] /\ 1 \in DOMAIN q
    BY <1>1
<1> QED BY <1>1, <1>2, <1>3

LEMMA TailShrinks ==
    ASSUME NEW S, NEW q \in Seq(S), q # <<>>
    PROVE  ToSet(Tail(q)) \subseteq ToSet(q) /\ Head(q) \in ToSet(q)
<1>1. /\ Len(q) \in Nat \ {0} /\ DOMAIN q = 1..Len(q) /\ Head(q) = q[1]
      /\ DOMAIN Tail(q) = 1..(Len(q) - 1)
      /\ \A k \in 1..(Len(q) - 1) : Tail(q)[k] = q[k + 1]
    BY TailIs
<1>2. \A k \in 1..(Len(q) - 1) : k + 1 \in DOMAIN q
    BY <1>1
<1>3. 1 \in DOMAIN q
    BY <1>1
<1>4. Head(q) \in ToSet(q)
    BY <1>1, <1>3 DEF ToSet
<1>5. ASSUME NEW x \in ToSet(Tail(q)) PROVE x \in ToSet(q)
  <2>1. PICK k \in DOMAIN Tail(q) : x = Tail(q)[k]
      BY DEF ToSet
  <2>2. x = q[k + 1] /\ k + 1 \in DOMAIN q
      BY <1>1, <1>2, <2>1
  <2> QED BY <2>2 DEF ToSet
<1> QED BY <1>4, <1>5

(* The events of an ordered queue are distinct, so its tail has lost its     *)
(* first event.                                                              *)
LEMMA TailInOrder ==
    ASSUME NEW cursor \in Nat, NEW q \in Seq(Event), q # <<>>, InOrder(cursor, q)
    PROVE  /\ Tail(q) \in Seq(Event) /\ InOrder(cursor, Tail(q))
           /\ Head(q) \in Event
           /\ Head(q) \in ToSet(q) /\ ToSet(Tail(q)) = ToSet(q) \ {Head(q)}
<1>1. /\ Len(q) \in Nat \ {0} /\ DOMAIN q = 1..Len(q)
      /\ Head(q) = q[1] /\ Head(q) \in Event /\ Tail(q) \in Seq(Event)
      /\ DOMAIN Tail(q) = 1..(Len(q) - 1)
      /\ \A k \in 1..(Len(q) - 1) : Tail(q)[k] = q[k + 1]
    BY TailIs
<1>2. \A k \in 1..(Len(q) - 1) : k + 1 \in DOMAIN q /\ k \in Nat /\ 1 < k + 1
    BY <1>1
<1>3. 1 \in DOMAIN q /\ \A k \in DOMAIN q : q[k] \in Nat
    BY <1>1, RelayerConstants
<1>4. InOrder(cursor, Tail(q))
  <2>1. \A k \in DOMAIN Tail(q) : Tail(q)[k] < cursor /\ Tail(q)[k] \notin Rejected
      BY <1>1, <1>2 DEF InOrder
  <2>2. ASSUME NEW j \in DOMAIN Tail(q), NEW k \in DOMAIN Tail(q), j < k
        PROVE  Tail(q)[j] < Tail(q)[k]
    <3>1. j + 1 \in DOMAIN q /\ k + 1 \in DOMAIN q /\ j + 1 < k + 1
        BY <1>1, <1>2, <2>2
    <3> QED BY <3>1, <1>1 DEF InOrder, Ascending
  <2> QED BY <2>1, <2>2 DEF InOrder, Ascending
<1>5. ToSet(Tail(q)) \subseteq ToSet(q) /\ Head(q) \in ToSet(q)
    BY TailShrinks
<1>6. Head(q) \notin ToSet(Tail(q))
  <2> SUFFICES ASSUME NEW k \in DOMAIN Tail(q), Tail(q)[k] = q[1] PROVE FALSE
      BY <1>1 DEF ToSet
  <2>1. q[k + 1] = q[1] /\ k + 1 \in DOMAIN q /\ 1 < k + 1
      BY <1>1, <1>2
  <2>2. q[1] < q[k + 1]
      BY <1>3, <2>1 DEF InOrder, Ascending
  <2> QED BY <2>1, <2>2, <1>3
<1>7. ASSUME NEW x \in ToSet(q), x # Head(q) PROVE x \in ToSet(Tail(q))
  <2>1. PICK k \in DOMAIN q : x = q[k]
      BY DEF ToSet
  <2>2. k \in Nat /\ k # 1 /\ k - 1 \in 1..(Len(q) - 1) /\ (k - 1) + 1 = k
      BY <1>1, <1>7, <2>1
  <2>3. Tail(q)[k - 1] = x /\ k - 1 \in DOMAIN Tail(q)
      BY <1>1, <2>1, <2>2
  <2> QED BY <2>3 DEF ToSet
<1> QED BY <1>1, <1>4, <1>5, <1>6, <1>7

-----------------------------------------------------------------------------
(* The steps.                                                                *)

(* A process that has just started.                                          *)
Fresh ==
    /\ logged \in 0..MaxEvents /\ poll = FreshPoll /\ batch = FreshBatch
    /\ recovery = FreshRecovery /\ sent = NeverSent

LEMMA FreshKeeps == Fresh => RelayerInv
<1> SUFFICES ASSUME Fresh PROVE RelayerInv
    OBVIOUS
<1> USE RelayerConstants DEF Fresh
<1>1. RelayerTyped
    BY DEF RelayerTyped, FreshPoll, FreshBatch, FreshRecovery, NeverSent
<1>2. poll.cursor = 0 /\ poll.seen = <<>> /\ batch.pending = <<>> /\ batch.entries = <<>>
      /\ batch.verifying = FALSE /\ recovery.dead = <<>> /\ DOMAIN <<>> = {}
      /\ recovery.attempts = [e \in Event |-> 0] /\ sent = [e \in Event |-> 0]
    BY DEF FreshPoll, FreshBatch, FreshRecovery, NeverSent
<1>3. ToSet(<<>>) = {}
    BY <1>2 DEF ToSet
<1>4. \A e \in Event : ~(e < 0)
    OBVIOUS
<1>5. Remembered(0, <<>>) /\ InOrder(0, <<>>)
    BY <1>2, <1>4 DEF Remembered, InOrder, Ascending
<1>6. QueuesOrdered
    BY <1>2, <1>3, <1>5 DEF QueuesOrdered
<1>7. InMemory = {}
    BY <1>2, <1>3 DEF InMemory, Unsent
<1>8. SentOrWaiting
    BY <1>2, <1>4, <1>7 DEF SentOrWaiting
<1>9. FailuresWereSent
    BY <1>2, <1>3 DEF FailuresWereSent
<1> QED BY <1>1, <1>2, <1>5, <1>6, <1>8, <1>9 DEF RelayerInv

LEMMA FreshKeepsNext == Fresh' => RelayerInv'
BY FreshKeeps, PTL

(* The loop starts with what the last poll left.                             *)
LEMMA LoopStarts ==
    ASSUME RelayerInv
    PROVE  LoopInv(LoopStart, FirstIndex)
<1>1. RelayerTyped /\ Remembered(poll.cursor, poll.seen) /\ InOrder(poll.cursor, batch.pending)
    BY DEF RelayerInv, QueuesOrdered
<1>2. poll.cursor \in Nat /\ poll.cursor \in 0..MaxEvents /\ poll.seen \in Seq(Event)
      /\ batch.pending \in Seq(Event) /\ poll.cursor <= logged
    BY <1>1, RelayerConstants DEF RelayerTyped
<1>3. FirstIndex \in Nat /\ FirstIndex <= poll.cursor
    BY <1>1, PageIs
<1>4. LoopStart.cursor = poll.cursor /\ LoopStart.seen = poll.seen
      /\ LoopStart.pending = batch.pending /\ LoopStart \in LoopState
    BY <1>2 DEF LoopStart, LoopState
<1>5. \A e \in Event : e < FirstIndex => e < poll.cursor
    BY <1>2, <1>3, RelayerConstants
<1>6. \A e \in Event : ~(e >= poll.cursor /\ e < poll.cursor)
    BY <1>2, RelayerConstants
<1>7. FirstIndex >= poll.cursor => poll.cursor <= FirstIndex
    BY <1>2, <1>3
<1>8. poll.cursor <= poll.cursor
    BY <1>2
<1> QED BY <1>1, <1>2, <1>4, <1>5, <1>6, <1>7, <1>8 DEF LoopInv

LEMMA PollKeeps ==
    ASSUME OverlapRemembered, RelayerInv, Poll
    PROVE  RelayerInv'
<1> DEFINE after == AfterPage(Page)
           I == FirstIndex + Len(Page)
<1>1. /\ RelayerTyped /\ QueuesOrdered /\ SentOrWaiting /\ FailuresWereSent
      /\ batch.entries = <<>>
    BY DEF RelayerInv, Poll
<1>2. LoopInv(after, I)
    BY <1>1, LoopStarts, PageLoop
<1>3. /\ poll' = [cursor |-> after.cursor, idle |-> IdleAfter(Page), seen |-> after.seen]
      /\ batch' = IF isReady(after.pending, batch.elapsed)
                  THEN [FreshBatch EXCEPT !.entries = Provable(after.pending)]
                  ELSE [batch EXCEPT !.pending = after.pending]
      /\ logged' = logged /\ recovery' = recovery /\ sent' = sent
    BY DEF Poll
<1> HIDE DEF after, I
<1>4. /\ after.cursor \in 0..MaxEvents /\ after.cursor \in Nat
      /\ after.seen \in Seq(Event) /\ after.pending \in Seq(Event)
      /\ poll.cursor \in Nat /\ poll.cursor <= after.cursor /\ after.cursor <= logged
      /\ logged \in 0..MaxEvents
      /\ Remembered(after.cursor, after.seen) /\ InOrder(after.cursor, after.pending)
    BY <1>1, <1>2, RelayerConstants DEF LoopInv, LoopState, RelayerTyped
<1>5. IdleAfter(Page) \in Nat
  <2>1. poll.idle \in Nat /\ IdleThreshold \in Nat
      BY <1>1, RelayerConstants DEF RelayerTyped
  <2>2. Min({poll.idle + 1, IdleThreshold})
            = IF poll.idle + 1 <= IdleThreshold THEN poll.idle + 1 ELSE IdleThreshold
      BY <2>1, MinOfTwo
  <2> QED BY <2>1, <2>2 DEF IdleAfter
<1>6. poll'.cursor = after.cursor /\ poll'.seen = after.seen
      /\ poll' \in [cursor : 0..MaxEvents, idle : Nat, seen : Seq(Event)]
    BY <1>3, <1>4, <1>5
<1>7. ToSet(<<>>) = {} /\ DOMAIN <<>> = {} /\ InOrder(after.cursor, <<>>)
    BY DEF ToSet, InOrder, Ascending
<1>8. batch.verifying = FALSE /\ InMemory = ToSet(batch.pending)
  <2>1. batch.verifying \in BOOLEAN /\ (batch.verifying => batch.entries # <<>>)
      BY <1>1 DEF RelayerTyped, QueuesOrdered
  <2>2. batch.verifying = FALSE
      BY <2>1, <1>1
  <2> QED BY <2>2, <1>1, <1>7 DEF InMemory, Unsent
<1>9. /\ batch' \in [pending : Seq(Event), elapsed : BOOLEAN, entries : Seq(Event),
                     verifying : BOOLEAN]
      /\ InOrder(after.cursor, batch'.pending)
      /\ InOrder(after.cursor, batch'.entries)
      /\ ToSet(batch'.entries) \cap Unprovable = {}
      /\ batch'.entries # <<>> => batch'.pending = <<>>
      /\ batch'.verifying = FALSE
      /\ InMemory' \subseteq ToSet(after.pending)
      /\ ToSet(after.pending) \subseteq InMemory' \cup Unprovable
  <2>1. CASE isReady(after.pending, batch.elapsed)
    <3> DEFINE new == Provable(after.pending)
    <3>1. /\ new \in Seq(Event) /\ InOrder(after.cursor, new)
          /\ ToSet(new) = ToSet(after.pending) \ Unprovable
        BY <1>4, ProvableKeeps
    <3> HIDE DEF new
    <3>2. batch' = [pending |-> <<>>, elapsed |-> FALSE, entries |-> new, verifying |-> FALSE]
        BY <1>3, <2>1 DEF FreshBatch, new
    <3>3. batch'.pending = <<>> /\ batch'.entries = new /\ batch'.verifying = FALSE
        BY <3>2
    <3>4. InMemory' = ToSet(after.pending) \ Unprovable
        BY <3>1, <3>3, <1>7 DEF InMemory, Unsent
    <3> QED BY <3>1, <3>2, <3>3, <3>4, <1>7
  <2>2. CASE ~isReady(after.pending, batch.elapsed)
    <3>1. batch' = [batch EXCEPT !.pending = after.pending]
        BY <1>3, <2>2
    <3>2. batch \in [pending : Seq(Event), elapsed : BOOLEAN, entries : Seq(Event),
                     verifying : BOOLEAN]
        BY <1>1 DEF RelayerTyped
    <3>3. batch'.pending = after.pending /\ batch'.entries = <<>> /\ batch'.verifying = FALSE
          /\ batch' \in [pending : Seq(Event), elapsed : BOOLEAN, entries : Seq(Event),
                         verifying : BOOLEAN]
        BY <3>1, <3>2, <1>1, <1>4, <1>8
    <3>4. InMemory' = ToSet(after.pending)
        BY <3>3, <1>7 DEF InMemory, Unsent
    <3> QED BY <3>3, <3>4, <1>4, <1>7
  <2> QED BY <2>1, <2>2
<1>10. RelayerTyped'
    BY <1>1, <1>3, <1>4, <1>6, <1>9 DEF RelayerTyped
<1>11. Remembered(poll.cursor, poll.seen)'
    BY <1>4, <1>6 DEF Remembered
<1>12. QueuesOrdered'
    BY <1>6, <1>9 DEF QueuesOrdered, InOrder, Ascending
<1>13. SentOrWaiting'
  <2> SUFFICES ASSUME NEW e \in Event
               PROVE  /\ sent[e] <= 1
                      /\ e \in InMemory' => sent[e] = 0
                      /\ sent[e] > 0 => e < after.cursor
                      /\ e < after.cursor /\ e \notin Rejected \cup Unprovable
                         /\ e \notin InMemory' => sent[e] = 1
      BY <1>3, <1>6 DEF SentOrWaiting
  <2>1. /\ sent[e] \in Nat /\ e \in Nat /\ sent[e] <= 1
        /\ e \in ToSet(batch.pending) => sent[e] = 0
        /\ sent[e] > 0 => e < poll.cursor
        /\ e < poll.cursor /\ e \notin Rejected \cup Unprovable /\ e \notin ToSet(batch.pending)
              => sent[e] = 1
      BY <1>1, <1>8, RelayerConstants DEF SentOrWaiting, RelayerTyped
  <2>2. /\ e \in ToSet(batch.pending) => e \in ToSet(after.pending)
        /\ e \in ToSet(after.pending) => e \in ToSet(batch.pending) \/ e >= poll.cursor
        /\ e \notin Rejected /\ e >= poll.cursor /\ e < after.cursor => e \in ToSet(after.pending)
      BY <1>2 DEF LoopInv
  <2>3. e \in InMemory' => e \in ToSet(after.pending)
      BY <1>9
  <2>4. e \in ToSet(after.pending) /\ e \notin Unprovable => e \in InMemory'
      BY <1>9
  <2> QED BY <2>1, <2>2, <2>3, <2>4, <1>4
<1>14. FailuresWereSent'
    BY <1>1, <1>3 DEF FailuresWereSent
<1> QED BY <1>10, <1>11, <1>12, <1>13, <1>14 DEF RelayerInv

(* The entry that is submitted next waits, was never sent and has not        *)
(* failed.                                                                   *)
LEMMA EntryIs ==
    ASSUME RelayerInv, Submitting
    PROVE  /\ Entry \in Event /\ Tail(batch.entries) \in Seq(Event)
           /\ InOrder(poll.cursor, Tail(batch.entries))
           /\ ToSet(Tail(batch.entries)) = ToSet(batch.entries) \ {Entry}
           /\ batch.pending = <<>> /\ InMemory = ToSet(batch.entries)
           /\ Entry \in InMemory /\ sent[Entry] = 0 /\ Entry < poll.cursor
           /\ Entry \notin ToSet(recovery.dead) /\ recovery.attempts[Entry] = 0
           /\ EntrySent \in [Event -> Nat]
           /\ EntrySent[Entry] = 1
           /\ \A e \in Event : e # Entry => EntrySent[e] = sent[e]
<1>1. /\ RelayerTyped /\ QueuesOrdered /\ SentOrWaiting /\ FailuresWereSent
      /\ batch.entries # <<>> /\ ~batch.verifying
    BY DEF RelayerInv, Submitting
<1>2. /\ batch.entries \in Seq(Event) /\ poll.cursor \in Nat /\ sent \in [Event -> Nat]
      /\ recovery.attempts \in [Event -> Nat]
      /\ InOrder(poll.cursor, batch.entries)
  <2>1. InOrder(poll.cursor, batch.entries)
      BY <1>1 DEF QueuesOrdered
  <2>2. poll.cursor \in 0..MaxEvents /\ sent \in [Event -> Nat]
        /\ batch.entries \in Seq(Event) /\ recovery.attempts \in [Event -> Nat]
      BY <1>1 DEF RelayerTyped
  <2> QED BY <2>1, <2>2
<1>3. /\ Tail(batch.entries) \in Seq(Event) /\ InOrder(poll.cursor, Tail(batch.entries))
      /\ Entry \in Event /\ Entry \in ToSet(batch.entries)
      /\ ToSet(Tail(batch.entries)) = ToSet(batch.entries) \ {Entry}
    BY <1>1, <1>2, TailInOrder DEF Entry
<1>4. batch.pending = <<>> /\ InMemory = ToSet(batch.entries)
  <2>1. batch.pending = <<>>
      BY <1>1 DEF QueuesOrdered
  <2>2. ToSet(<<>>) = {}
      BY DEF ToSet
  <2> QED BY <1>1, <2>1, <2>2 DEF InMemory, Unsent
<1>5. sent[Entry] = 0
    BY <1>1, <1>3, <1>4 DEF SentOrWaiting
<1>6. Entry < poll.cursor
  <2>1. PICK k \in DOMAIN batch.entries : Entry = batch.entries[k]
      BY <1>3 DEF ToSet
  <2> QED BY <2>1, <1>2 DEF InOrder
<1>7. Entry \notin ToSet(recovery.dead) /\ recovery.attempts[Entry] = 0
  <2>1. recovery.attempts[Entry] \in Nat
      BY <1>2, <1>3
  <2> QED BY <1>1, <1>3, <1>5, <2>1 DEF FailuresWereSent
<1>8. /\ EntrySent \in [Event -> Nat]
      /\ EntrySent[Entry] = 1
      /\ \A e \in Event : e # Entry => EntrySent[e] = sent[e]
  <2>1. EntrySent = [sent EXCEPT ![Entry] = sent[Entry] + 1]
      BY DEF EntrySent
  <2> HIDE DEF Entry
  <2> QED BY <1>2, <1>3, <1>5, <2>1
<1> QED BY <1>3, <1>4, <1>5, <1>6, <1>7, <1>8

(* Once the entry is sent the others wait.                                   *)
LEMMA EntrySentKeeps ==
    ASSUME RelayerInv, Submitting, sent' = EntrySent, poll' = poll,
           InMemory' = ToSet(Tail(batch.entries))
    PROVE  SentOrWaiting'
<1>1. /\ RelayerTyped /\ SentOrWaiting /\ Entry \in Event
      /\ ToSet(Tail(batch.entries)) = InMemory \ {Entry} /\ Entry < poll.cursor
      /\ EntrySent[Entry] = 1
      /\ \A e \in Event : e # Entry => EntrySent[e] = sent[e]
    BY EntryIs DEF RelayerInv
<1> HIDE DEF Entry, EntrySent
<1>2. ASSUME NEW e \in Event
      PROVE  /\ sent'[e] <= 1
             /\ e \in InMemory' => sent'[e] = 0
             /\ sent'[e] > 0 => e < poll.cursor
             /\ e < poll.cursor /\ e \notin Rejected \cup Unprovable /\ e \notin InMemory'
                   => sent'[e] = 1
  <2>1. CASE e = Entry
    <3>1. sent'[e] = 1 /\ e \notin InMemory' /\ e < poll.cursor
        BY <1>1, <2>1
    <3> QED BY <3>1
  <2>2. CASE e # Entry
    <3>1. sent'[e] = sent[e] /\ (e \in InMemory' <=> e \in InMemory)
        BY <1>1, <2>2
    <3> QED BY <1>1, <3>1 DEF SentOrWaiting
  <2> QED BY <2>1, <2>2
<1> QED BY <1>2 DEF SentOrWaiting

LEMMA SubmittedKeeps ==
    ASSUME RelayerInv, Submitted
    PROVE  RelayerInv'
<1>1. /\ Submitting /\ sent' = EntrySent
      /\ recovery' = [recovery EXCEPT !.attempts[Entry] = 0]
      /\ batch' = [batch EXCEPT !.verifying = TRUE] /\ logged' = logged /\ poll' = poll
    BY DEF Submitted
<1>2. /\ RelayerTyped /\ Remembered(poll.cursor, poll.seen) /\ QueuesOrdered
      /\ SentOrWaiting /\ FailuresWereSent
    BY DEF RelayerInv
<1>3. batch \in [pending : Seq(Event), elapsed : BOOLEAN, entries : Seq(Event),
                 verifying : BOOLEAN]
      /\ recovery \in [attempts : [Event -> Nat], dead : Seq(Event)]
    BY <1>2 DEF RelayerTyped
<1>4. /\ batch' \in [pending : Seq(Event), elapsed : BOOLEAN, entries : Seq(Event),
                     verifying : BOOLEAN]
      /\ batch'.pending = batch.pending /\ batch'.entries = batch.entries
      /\ batch'.verifying = TRUE
    BY <1>1, <1>3
<1>5. /\ recovery' \in [attempts : [Event -> Nat], dead : Seq(Event)]
      /\ recovery'.dead = recovery.dead
      /\ \A e \in Event : recovery'.attempts[e] > 0 => e # Entry /\ recovery.attempts[e] > 0
  <2>1. Entry \in Event
      BY <1>1, EntryIs
  <2> DEFINE a == recovery.attempts
             b == [a EXCEPT ![Entry] = 0]
  <2> HIDE DEF Entry
  <2>2. a \in [Event -> Nat] /\ recovery' = [attempts |-> b, dead |-> recovery.dead]
      BY <1>1, <1>3
  <2> HIDE DEF a
  <2>3. /\ b \in [Event -> Nat]
        /\ \A e \in Event : b[e] = IF e = Entry THEN 0 ELSE a[e]
      BY <2>1, <2>2
  <2> HIDE DEF b
  <2>4. recovery.dead \in Seq(Event)
      BY <1>3
  <2> QED BY <2>2, <2>3, <2>4 DEF a
<1>6. RelayerTyped'
    BY <1>1, <1>2, <1>4, <1>5, EntryIs DEF RelayerTyped
<1>7. QueuesOrdered'
    BY <1>1, <1>2, <1>4 DEF QueuesOrdered, Submitting, InOrder, Ascending
<1>8. InMemory' = ToSet(Tail(batch.entries))
  <2>1. batch.pending = <<>> /\ ToSet(<<>>) = {}
      BY <1>1, EntryIs DEF ToSet
  <2> QED BY <1>4, <2>1 DEF InMemory, Unsent
<1>9. SentOrWaiting'
    BY <1>1, <1>8, EntrySentKeeps
<1>10. FailuresWereSent'
  <2> SUFFICES ASSUME NEW e \in Event
               PROVE  /\ e \in ToSet(recovery'.dead) => sent'[e] = 1
                      /\ recovery'.attempts[e] > 0 =>
                            sent'[e] = 1 /\ e \notin ToSet(recovery'.dead)
      BY DEF FailuresWereSent
  <2>1. EntrySent[Entry] = 1 /\ (e # Entry => EntrySent[e] = sent[e])
      BY <1>1, EntryIs
  <2> HIDE DEF Entry, EntrySent
  <2> QED BY <1>1, <1>2, <1>5, <2>1 DEF FailuresWereSent
<1>11. Remembered(poll.cursor, poll.seen)'
    BY <1>1, <1>2 DEF Remembered
<1> QED BY <1>6, <1>7, <1>9, <1>10, <1>11 DEF RelayerInv

(* A failure is counted or becomes a dead letter, and nothing else changes.  *)
LEMMA HandledIs ==
    ASSUME RelayerTyped, NEW e \in Event, NEW retryable \in BOOLEAN
    PROVE  /\ Handled(e, retryable) \in [attempts : [Event -> Nat], dead : Seq(Event)]
           /\ ToSet(Handled(e, retryable).dead) \subseteq ToSet(recovery.dead) \cup {e}
           /\ \A x \in Event : x # e =>
                 Handled(e, retryable).attempts[x] = recovery.attempts[x]
           /\ Handled(e, retryable).attempts[e] > 0 =>
                 Handled(e, retryable).dead = recovery.dead
<1>1. /\ recovery \in [attempts : [Event -> Nat], dead : Seq(Event)]
      /\ recovery.attempts \in [Event -> Nat] /\ recovery.dead \in Seq(Event)
    BY DEF RelayerTyped
<1>2. CASE retryable /\ recovery.attempts[e] < MaxRetries
  <2>1. Handled(e, retryable) = [recovery EXCEPT !.attempts[e] = @ + 1]
      BY <1>2 DEF Handled
  <2> QED BY <1>1, <2>1
<1>3. CASE ~(retryable /\ recovery.attempts[e] < MaxRetries)
  <2> DEFINE queue == Append(recovery.dead, e)
             left == IF Len(queue) > MaxDeadLetters THEN Tail(queue) ELSE queue
  <2>1. Handled(e, retryable) = [attempts |-> [recovery.attempts EXCEPT ![e] = 0], dead |-> left]
      BY <1>3 DEF Handled, WithDeadLetter
  <2>2. queue \in Seq(Event) /\ queue # <<>> /\ ToSet(queue) = ToSet(recovery.dead) \cup {e}
    <3>1. queue \in Seq(Event) /\ queue # <<>>
        BY <1>1
    <3> QED BY <3>1, <1>1, ToSetAppend
  <2> HIDE DEF queue
  <2>3. Tail(queue) \in Seq(Event) /\ ToSet(Tail(queue)) \subseteq ToSet(queue)
      BY <2>2, TailIs, TailShrinks
  <2>4. left \in Seq(Event) /\ ToSet(left) \subseteq ToSet(recovery.dead) \cup {e}
      BY <2>2, <2>3
  <2> HIDE DEF left
  <2> QED BY <1>1, <2>1, <2>4
<1> QED BY <1>2, <1>3

LEMMA SubmissionFailsKeeps ==
    ASSUME RelayerInv, SubmissionFails
    PROVE  RelayerInv'
<1>1. /\ Submitting /\ sent' = EntrySent /\ batch' = EntryDone
      /\ logged' = logged /\ poll' = poll
    BY DEF SubmissionFails
<1>r. PICK retryable \in BOOLEAN : recovery' = Handled(Entry, retryable)
    BY DEF SubmissionFails
<1>2. /\ RelayerTyped /\ Remembered(poll.cursor, poll.seen) /\ QueuesOrdered
      /\ SentOrWaiting /\ FailuresWereSent
    BY DEF RelayerInv
<1>3. batch \in [pending : Seq(Event), elapsed : BOOLEAN, entries : Seq(Event),
                 verifying : BOOLEAN]
    BY <1>2 DEF RelayerTyped
<1>e. /\ Entry \in Event /\ Tail(batch.entries) \in Seq(Event)
      /\ InOrder(poll.cursor, Tail(batch.entries))
      /\ ToSet(Tail(batch.entries)) = ToSet(batch.entries) \ {Entry}
      /\ batch.pending = <<>> /\ Entry \notin ToSet(recovery.dead)
      /\ EntrySent \in [Event -> Nat] /\ EntrySent[Entry] = 1
      /\ \A e \in Event : e # Entry => EntrySent[e] = sent[e]
    BY <1>1, EntryIs
<1>4. /\ batch' \in [pending : Seq(Event), elapsed : BOOLEAN, entries : Seq(Event),
                     verifying : BOOLEAN]
      /\ batch'.pending = <<>> /\ batch'.entries = Tail(batch.entries)
      /\ batch'.verifying = FALSE
    BY <1>1, <1>3, <1>e DEF EntryDone
<1> HIDE DEF Entry, EntrySent
<1>5. /\ recovery' \in [attempts : [Event -> Nat], dead : Seq(Event)]
      /\ ToSet(recovery'.dead) \subseteq ToSet(recovery.dead) \cup {Entry}
      /\ \A e \in Event : e # Entry => recovery'.attempts[e] = recovery.attempts[e]
      /\ recovery'.attempts[Entry] > 0 => recovery'.dead = recovery.dead
    BY <1>2, <1>e, <1>r, HandledIs, SMTT(30)
<1>6. RelayerTyped'
    BY <1>1, <1>2, <1>4, <1>5, <1>e DEF RelayerTyped
<1>7. QueuesOrdered'
  <2>1. ToSet(batch.entries) \cap Unprovable = {} /\ DOMAIN <<>> = {}
      BY <1>2 DEF QueuesOrdered
  <2>2. ToSet(batch'.entries) \cap Unprovable = {}
      BY <2>1, <1>4, <1>e
  <2> QED BY <1>1, <1>4, <1>e, <2>1, <2>2 DEF QueuesOrdered, InOrder, Ascending
<1>8. InMemory' = ToSet(Tail(batch.entries))
  <2>1. ToSet(<<>>) = {}
      BY DEF ToSet
  <2> QED BY <1>4, <2>1 DEF InMemory, Unsent
<1>9. SentOrWaiting'
    BY <1>1, <1>8, EntrySentKeeps
<1>10. FailuresWereSent'
  <2> SUFFICES ASSUME NEW e \in Event
               PROVE  /\ e \in ToSet(recovery'.dead) => sent'[e] = 1
                      /\ recovery'.attempts[e] > 0 =>
                            sent'[e] = 1 /\ e \notin ToSet(recovery'.dead)
      BY DEF FailuresWereSent
  <2>1. CASE e = Entry
      BY <2>1, <1>1, <1>5, <1>e
  <2>2. CASE e # Entry
    <3>1. sent'[e] = sent[e] /\ recovery'.attempts[e] = recovery.attempts[e]
          /\ (e \in ToSet(recovery'.dead) => e \in ToSet(recovery.dead))
        BY <2>2, <1>1, <1>5, <1>e
    <3> QED BY <3>1, <1>2 DEF FailuresWereSent
  <2> QED BY <2>1, <2>2
<1>11. Remembered(poll.cursor, poll.seen)'
    BY <1>1, <1>2 DEF Remembered
<1> QED BY <1>6, <1>7, <1>9, <1>10, <1>11 DEF RelayerInv

LEMMA VerifiedKeeps ==
    ASSUME RelayerInv, Verified
    PROVE  RelayerInv'
<1>1. /\ batch.entries # <<>> /\ batch.verifying /\ batch' = EntryDone
      /\ logged' = logged /\ poll' = poll /\ recovery' = recovery /\ sent' = sent
    BY DEF Verified, Verifying
<1>2. /\ RelayerTyped /\ Remembered(poll.cursor, poll.seen) /\ QueuesOrdered
      /\ SentOrWaiting /\ FailuresWereSent
    BY DEF RelayerInv
<1>3. /\ batch \in [pending : Seq(Event), elapsed : BOOLEAN, entries : Seq(Event),
                    verifying : BOOLEAN]
      /\ poll.cursor \in Nat /\ InOrder(poll.cursor, batch.entries)
    BY <1>2, RelayerConstants DEF RelayerTyped, QueuesOrdered
<1>4. /\ Tail(batch.entries) \in Seq(Event) /\ InOrder(poll.cursor, Tail(batch.entries))
      /\ ToSet(Tail(batch.entries)) \subseteq ToSet(batch.entries)
    BY <1>1, <1>3, TailInOrder
<1>5. /\ batch' \in [pending : Seq(Event), elapsed : BOOLEAN, entries : Seq(Event),
                     verifying : BOOLEAN]
      /\ batch'.pending = batch.pending /\ batch'.entries = Tail(batch.entries)
      /\ batch'.verifying = FALSE
    BY <1>1, <1>3, <1>4 DEF EntryDone
<1>6. RelayerTyped'
    BY <1>1, <1>2, <1>5 DEF RelayerTyped
<1>7. QueuesOrdered'
  <2>1. ToSet(batch.entries) \cap Unprovable = {} /\ batch.pending = <<>>
        /\ InOrder(poll.cursor, batch.pending)
      BY <1>1, <1>2 DEF QueuesOrdered
  <2>2. ToSet(batch'.entries) \cap Unprovable = {}
      BY <2>1, <1>4, <1>5
  <2> QED BY <1>1, <1>4, <1>5, <2>1, <2>2 DEF QueuesOrdered, InOrder, Ascending
<1>8. InMemory' = InMemory
    BY <1>1, <1>5 DEF InMemory, Unsent
<1>9. SentOrWaiting'
    BY <1>1, <1>2, <1>8 DEF SentOrWaiting
<1>10. FailuresWereSent' /\ Remembered(poll.cursor, poll.seen)'
    BY <1>1, <1>2 DEF FailuresWereSent, Remembered
<1> QED BY <1>6, <1>7, <1>9, <1>10 DEF RelayerInv

(* Whatever leaves the queues, the cursor and the counters alone keeps the   *)
(* invariant: an event is logged, a client asks, the window elapses.         *)
LEMMA OthersKeep ==
    ASSUME RelayerInv, logged' \in 0..MaxEvents, logged <= logged',
           poll' = poll, recovery' = recovery, sent' = sent,
           batch' = batch \/ batch' = [batch EXCEPT !.elapsed = TRUE]
    PROVE  RelayerInv'
<1>1. /\ RelayerTyped /\ Remembered(poll.cursor, poll.seen) /\ QueuesOrdered
      /\ SentOrWaiting /\ FailuresWereSent
    BY DEF RelayerInv
<1>2. batch \in [pending : Seq(Event), elapsed : BOOLEAN, entries : Seq(Event),
                 verifying : BOOLEAN]
      /\ poll.cursor \in Nat /\ poll.cursor <= logged /\ logged \in Nat
    BY <1>1, RelayerConstants DEF RelayerTyped
<1>3. /\ batch' \in [pending : Seq(Event), elapsed : BOOLEAN, entries : Seq(Event),
                     verifying : BOOLEAN]
      /\ batch'.pending = batch.pending /\ batch'.entries = batch.entries
      /\ batch'.verifying = batch.verifying
    BY <1>2
<1>4. RelayerTyped'
  <2>1. poll.cursor <= logged'
      BY <1>2, RelayerConstants
  <2> QED BY <1>1, <1>3, <2>1 DEF RelayerTyped
<1>5. InMemory' = InMemory
    BY <1>3 DEF InMemory, Unsent
<1>6. SentOrWaiting'
    BY <1>1, <1>5 DEF SentOrWaiting
<1>7. QueuesOrdered'
    BY <1>1, <1>3 DEF QueuesOrdered, InOrder, Ascending
<1>8. FailuresWereSent' /\ Remembered(poll.cursor, poll.seen)'
    BY <1>1 DEF FailuresWereSent, Remembered
<1> QED BY <1>4, <1>6, <1>7, <1>8 DEF RelayerInv

LEMMA NextKeepsRelayerInv ==
    ASSUME OverlapRemembered, RelayerInv, [RelayerNext]_relayerVars
    PROVE  RelayerInv'
<1>1. logged \in 0..MaxEvents /\ logged \in Nat /\ MaxEvents \in Nat
    BY RelayerConstants DEF RelayerInv, RelayerTyped
<1>2. CASE EventLogged
    BY <1>1, <1>2, OthersKeep DEF EventLogged
<1>3. CASE Restart
  <2>1. /\ logged' = logged /\ poll' = FreshPoll /\ batch' = FreshBatch
        /\ recovery' = FreshRecovery /\ sent' = NeverSent
      BY <1>3 DEF Restart
  <2> QED BY <1>1, <2>1, FreshKeepsNext DEF Fresh
<1>4. CASE Poll
    BY <1>4, PollKeeps
<1>5. CASE Submitted
    BY <1>5, SubmittedKeeps
<1>6. CASE SubmissionFails
    BY <1>6, SubmissionFailsKeeps
<1>7. CASE Verified
    BY <1>7, VerifiedKeeps
<1>8. CASE WindowElapses
    BY <1>1, <1>8, OthersKeep DEF WindowElapses
<1>9. CASE ApiRequests
    BY <1>1, <1>9, OthersKeep DEF ApiRequests, ApiRequest
<1>10. CASE ApiAnswers
    BY <1>1, <1>10, OthersKeep DEF ApiAnswers, ApiAnswer
<1>11. CASE UNCHANGED relayerVars
    BY <1>1, <1>11, OthersKeep DEF relayerVars
<1> QED BY <1>2, <1>3, <1>4, <1>5, <1>6, <1>7, <1>8, <1>9, <1>10, <1>11
        DEF RelayerNext, Process

(* In an ordered queue an event waits at most once.                          *)
LEMMA WaitingIs ==
    ASSUME RelayerInv, NEW e \in Event
    PROVE  Waiting(e) = IF e \in InMemory THEN 1 ELSE 0
<1> DEFINE queue == batch.pending \o Unsent
           at == {k \in DOMAIN queue : queue[k] = e}
<1>1. RelayerTyped /\ QueuesOrdered
    BY DEF RelayerInv
<1>2. /\ batch.pending \in Seq(Event) /\ batch.entries \in Seq(Event) /\ poll.cursor \in Nat
      /\ InOrder(poll.cursor, batch.pending) /\ InOrder(poll.cursor, batch.entries)
      /\ batch.verifying => batch.entries # <<>>
      /\ batch.entries # <<>> => batch.pending = <<>>
  <2>1. batch.pending \in Seq(Event) /\ batch.entries \in Seq(Event) /\ poll.cursor \in Nat
      BY <1>1, RelayerConstants DEF RelayerTyped
  <2> QED BY <1>1, <2>1 DEF QueuesOrdered
<1>3. Unsent \in Seq(Event) /\ InOrder(poll.cursor, Unsent)
    BY <1>2, TailInOrder DEF Unsent
<1>4. Unsent # <<>> => batch.pending = <<>>
    BY <1>2 DEF Unsent
<1>5. queue \in Seq(Event) /\ Ascending(queue) /\ ToSet(queue) = InMemory
  <2>1. ToSet(<<>>) = {}
      BY DEF ToSet
  <2>2. CASE Unsent # <<>>
    <3>1. queue = Unsent
        BY <2>2, <1>3, <1>4
    <3> QED BY <3>1, <2>1, <2>2, <1>3, <1>4 DEF InMemory, InOrder
  <2>3. CASE Unsent = <<>>
    <3>1. queue = batch.pending
        BY <2>3, <1>2
    <3> QED BY <3>1, <2>1, <2>3, <1>2 DEF InMemory, InOrder
  <2> QED BY <2>2, <2>3
<1>6. Waiting(e) = Cardinality(at)
    BY DEF Waiting, Unsent
<1> HIDE DEF queue
<1>7. DOMAIN queue \subseteq Nat /\ \A k \in DOMAIN queue : queue[k] \in Nat
    BY <1>5, RelayerConstants
<1>8. CASE e \in InMemory
  <2>1. PICK k \in DOMAIN queue : queue[k] = e
      BY <1>5, <1>8 DEF ToSet
  <2>2. ASSUME NEW j \in DOMAIN queue, queue[j] = e PROVE j = k
    <3>1. ~(j < k) /\ ~(k < j)
        BY <1>5, <1>7, <2>1, <2>2 DEF Ascending
    <3> QED BY <3>1, <1>7
  <2>3. at = {k}
      BY <2>1, <2>2
  <2>4. Cardinality({k}) = 1
      BY FS_Singleton
  <2> QED BY <1>6, <1>8, <2>3, <2>4
<1>9. CASE e \notin InMemory
  <2>1. at = {}
      BY <1>5, <1>9 DEF ToSet
  <2> QED BY <1>6, <1>9, <2>1, FS_EmptySet
<1> QED BY <1>8, <1>9

LEMMA RelayerInvImplies ==
    ASSUME RelayerInv
    PROVE  RelayedOnce
<1>1. SentOrWaiting /\ FailuresWereSent /\ sent \in [Event -> Nat]
    BY DEF RelayerInv, RelayerTyped
<1>2. ASSUME NEW e \in Event
      PROVE  /\ Waiting(e) + sent[e] <= 1
             /\ e < poll.cursor /\ e \notin Rejected \cup Unprovable
                   => Waiting(e) + sent[e] = 1
  <2>1. Waiting(e) = IF e \in InMemory THEN 1 ELSE 0
      BY WaitingIs
  <2>2. /\ sent[e] <= 1 /\ sent[e] \in Nat
        /\ e \in InMemory => sent[e] = 0
        /\ e < poll.cursor /\ e \notin Rejected \cup Unprovable /\ e \notin InMemory
              => sent[e] = 1
      BY <1>1 DEF SentOrWaiting
  <2> QED BY <2>1, <2>2
<1> QED BY <1>1, <1>2 DEF RelayedOnce, FailuresWereSent

(* The relayer submits no event twice in one life of its process and leaves  *)
(* none behind its cursor, for every page size, overlap, batch size, filter  *)
(* and limit, as long as the halved deduplication set (isDuplicate)          *)
(* still remembers every event that a page repeats.                          *)
THEOREM RelayedOnceAlways ==
    ASSUME OverlapRemembered
    PROVE  RelayerSpec => []RelayedOnce
<1>1. RelayerInit => RelayerInv
  <2>1. 0 \in 0..MaxEvents
      BY RelayerConstants
  <2> QED BY <2>1, FreshKeeps DEF RelayerInit, Fresh
<1>2. RelayerInv /\ [RelayerNext]_relayerVars => RelayerInv'
    BY NextKeepsRelayerInv
<1>3. RelayerInv => RelayedOnce
    BY RelayerInvImplies
<1> QED BY <1>1, <1>2, <1>3, PTL DEF RelayerSpec
=============================================================================
