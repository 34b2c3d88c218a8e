--------------------------- MODULE PlatformProofs ---------------------------
(* Proofs about domain modules of the contract, for all constants: tenants   *)
(* are isolated, outcomes of offline money final, privacy accounted for,     *)
(* costs attributed, retirements covered, lifecycles and supply records      *)
(* traced, and regions, runbooks and incidents in order, whatever the other  *)
(* parts do.                                                                 *)
EXTENDS Platform, FiniteSetTheorems, WellFoundedInduction, TLAPS

-----------------------------------------------------------------------------
(* The parts side by side.                                                   *)

(* A step of the platform touches the records of a part only by a call of    *)
(* that part, and the clock does not go back.                                *)
LEMMA PartSteps ==
    ASSUME [PlatformNext]_platformVars
    PROVE  /\ tenants' = tenants \/ TenantNext
           /\ cbdc' = cbdc \/ CbdcNext
           /\ finops' = finops \/ FinOpsNext
           /\ capacity' = capacity \/ CapacityNext
           /\ catalog' = catalog \/ CatalogNext
           /\ analytics' = analytics \/ AnalyticsNext
           /\ breaches' = breaches \/ BreachNext
           /\ carbon' = carbon \/ CarbonNext
           /\ passport' = passport \/ PassportNext
           /\ chain' = chain \/ (ChainNext /\ clock' = clock)
           /\ esg' = esg \/ EsgNext
           /\ regions' = regions \/ RegionsNext
           /\ runbook' = runbook \/ RunbookNext
           /\ incident' = incident \/ IncidentNext
           /\ clock \in Nat => clock' \in Nat /\ clock <= clock'
<1>1. CASE UNCHANGED platformVars BY <1>1 DEF platformVars, records
<1>2. CASE Tick BY <1>2 DEF Tick, records
<1>3. ASSUME NEW part \in Part, Call(part)
      PROVE  /\ tenants' = tenants \/ TenantNext
             /\ cbdc' = cbdc \/ CbdcNext
             /\ finops' = finops \/ FinOpsNext
             /\ capacity' = capacity \/ CapacityNext
             /\ catalog' = catalog \/ CatalogNext
             /\ analytics' = analytics \/ AnalyticsNext
             /\ breaches' = breaches \/ BreachNext
             /\ carbon' = carbon \/ CarbonNext
             /\ passport' = passport \/ PassportNext
             /\ chain' = chain \/ ChainNext
             /\ esg' = esg \/ EsgNext
             /\ regions' = regions \/ RegionsNext
             /\ runbook' = runbook \/ RunbookNext
             /\ incident' = incident \/ IncidentNext
             /\ clock' = clock
  <2>1. PartNext(part) /\ OthersKept(part) /\ UNCHANGED clock BY <1>3 DEF Call
  <2>. QED BY <2>1 DEF PartNext, OthersKept
<1>. QED BY <1>1, <1>2, <1>3 DEF PlatformNext

(* A function on 1..n is a sequence.                                         *)
LEMMA RuleIsList ==
    ASSUME NEW S, NEW n \in Nat, NEW a \in [1..n -> S]
    PROVE  a \in Seq(S)
OBVIOUS

(* A sequence, of whatever its entries are.                                  *)
IsList(s) == s \in Seq({s[k] : k \in DOMAIN s})

(* What is known of a list, of one more entry and of a changed one.          *)
LEMMA ListFacts ==
    ASSUME NEW s, IsList(s)
    PROVE  /\ Len(s) \in Nat /\ DOMAIN s = 1..Len(s)
           /\ \A x : /\ IsList(Append(s, x))
                     /\ DOMAIN Append(s, x) = 1..(Len(s) + 1)
                     /\ Append(s, x)[Len(s) + 1] = x
                     /\ \A k \in 1..Len(s) : Append(s, x)[k] = s[k]
           /\ \A x, n : n \in DOMAIN s => IsList([s EXCEPT ![n] = x])
<1>1. ASSUME NEW S, NEW u \in Seq(S)
      PROVE  IsList(u)
  <2>. DEFINE Q == {u[k] : k \in DOMAIN u}
  <2>1. u \in [1..Len(u) -> Q] /\ Len(u) \in Nat OBVIOUS
  <2>2. u \in Seq(Q)
    <3>. HIDE DEF Q
    <3>. QED BY <2>1, RuleIsList
  <2>. QED BY <2>2 DEF IsList
<1>. DEFINE R == {s[k] : k \in DOMAIN s}
<1>2. s \in Seq(R) BY DEF IsList
<1>3. Len(s) \in Nat /\ DOMAIN s = 1..Len(s) BY <1>2
<1>4. ASSUME NEW x
      PROVE  /\ IsList(Append(s, x))
             /\ DOMAIN Append(s, x) = 1..(Len(s) + 1)
             /\ Append(s, x)[Len(s) + 1] = x
             /\ \A k \in 1..Len(s) : Append(s, x)[k] = s[k]
  <2>. HIDE DEF R
  <2>1. s \in Seq(R \cup {x}) BY <1>2
  <2>2. Append(s, x) \in Seq(R \cup {x}) BY <2>1
  <2>3. IsList(Append(s, x)) BY <1>1, <2>2
  <2>. QED BY <2>1, <2>3
<1>5. ASSUME NEW x, NEW n \in DOMAIN s
      PROVE  IsList([s EXCEPT ![n] = x])
  <2>. HIDE DEF R
  <2>1. s \in [1..Len(s) -> R] BY <1>2
  <2>2. [s EXCEPT ![n] = x] \in [1..Len(s) -> R \cup {x}] BY <2>1
  <2>3. [s EXCEPT ![n] = x] \in Seq(R \cup {x}) BY <1>3, <2>2, RuleIsList
  <2>. QED BY <1>1, <2>3
<1>. QED BY <1>3, <1>4, <1>5

-----------------------------------------------------------------------------
(* Sums over finite sets.                                                    *)

(* A nonempty family of subsets of a finite set has a minimal member.        *)
LEMMA LeastSubset ==
    ASSUME NEW S, IsFiniteSet(S), NEW F \in SUBSET (SUBSET S), F # {}
    PROVE  \E T \in F : \A U \in F : U \subseteq T => U = T
<1>1. IsWellFoundedOn(StrictSubsetOrdering(S), SUBSET S)
  BY FS_StrictSubsetOrderingWellFounded, FS_FiniteSubsetsOfFinite
<1>2. \E x \in F : \A y \in F : ~(<<y, x>> \in StrictSubsetOrdering(S)) BY <1>1, WFMin
<1>. QED BY <1>2 DEF StrictSubsetOrdering

(* What holds of a finite set when it holds of its proper subsets, holds.    *)
LEMMA SubsetInduction ==
    ASSUME NEW S, IsFiniteSet(S), NEW G,
           \A T \in SUBSET S : (\A U \in SUBSET T : U # T => U \in G) => T \in G
    PROVE  \A T \in SUBSET S : T \in G
<1>. DEFINE F == {T \in SUBSET S : T \notin G}
<1>. SUFFICES ASSUME F # {} PROVE FALSE OBVIOUS
<1>1. F \in SUBSET (SUBSET S) OBVIOUS
<1>2. PICK T \in F : \A U \in F : U \subseteq T => U = T
  <2>. HIDE DEF F
  <2>. QED BY <1>1, LeastSubset
<1>3. ASSUME NEW U \in SUBSET T, U # T PROVE U \in G
  <2>1. U \notin F BY <1>2, <1>3
  <2>. QED BY <2>1, <1>2
<1>. QED BY <1>2, <1>3

(* The element a sum takes next, and the sums of f over the subsets of K.    *)
FirstOf(s) == CHOOSE x \in s : TRUE
Sums(g, f, K) ==
    g = [s \in SUBSET K |-> IF s = {} THEN 0 ELSE f[FirstOf(s)] + g[s \ {FirstOf(s)}]]

LEMMA TotalIsSum ==
    ASSUME NEW f, NEW K
    PROVE  Total(f, K) = (CHOOSE g : Sums(g, f, K))[K]
BY DEF Total, SumFunctionOnSet, FoldFunctionOnSet, MapThenFoldSet, Sums, FirstOf

LEMMA SumsAt ==
    ASSUME NEW f, NEW K, NEW g, Sums(g, f, K)
    PROVE  /\ g[{}] = 0
           /\ \A s \in SUBSET K : s # {} =>
                /\ FirstOf(s) \in s /\ s \ {FirstOf(s)} \in SUBSET K
                /\ g[s] = f[FirstOf(s)] + g[s \ {FirstOf(s)}]
<1>. DEFINE h(s) == IF s = {} THEN 0 ELSE f[FirstOf(s)] + g[s \ {FirstOf(s)}]
<1>1. \A s : s # {} => FirstOf(s) \in s BY DEF FirstOf
<1>2. g = [s \in SUBSET K |-> h(s)] BY DEF Sums
<1>3. \A s \in SUBSET K : g[s] = h(s)
  <2>. HIDE DEF h
  <2>. QED BY <1>2
<1>4. {} \in SUBSET K OBVIOUS
<1>. QED BY <1>1, <1>3, <1>4

LEMMA SumsStep ==
    ASSUME NEW f, NEW K, NEW g, Sums(g, f, K), NEW s \in SUBSET K, s # {}
    PROVE  g[s] = f[FirstOf(s)] + g[s \ {FirstOf(s)}]
BY SumsAt

(* Sums over a set agree with sums over a larger one.                        *)
LEMMA SumsAgree ==
    ASSUME NEW f, NEW K, IsFiniteSet(K), NEW L \in SUBSET K, NEW g, Sums(g, f, K),
           NEW h, Sums(h, f, L)
    PROVE  \A s \in SUBSET L : g[s] = h[s]
<1>0. /\ \A s \in SUBSET K : s # {} => g[s] = f[FirstOf(s)] + g[s \ {FirstOf(s)}]
      /\ \A s \in SUBSET L : s # {} => h[s] = f[FirstOf(s)] + h[s \ {FirstOf(s)}]
  <2>1. ASSUME NEW s \in SUBSET K, s # {}
        PROVE  g[s] = f[FirstOf(s)] + g[s \ {FirstOf(s)}]
    BY <2>1, SumsStep
  <2>2. ASSUME NEW s \in SUBSET L, s # {}
        PROVE  h[s] = f[FirstOf(s)] + h[s \ {FirstOf(s)}]
    BY <2>2, SumsStep
  <2>. QED BY <2>1, <2>2
<1>. DEFINE G == {s \in SUBSET L : g[s] = h[s]}
<1>1. IsFiniteSet(L) BY FS_Subset
<1>2. ASSUME NEW T \in SUBSET L, \A U \in SUBSET T : U # T => U \in G
      PROVE  T \in G
  <2>1. CASE T = {} BY <2>1, SumsAt
  <2>2. CASE T # {}
    <3>1. FirstOf(T) \in T BY <2>2 DEF FirstOf
    <3>2. T \ {FirstOf(T)} \in G BY <3>1, <1>2
    <3>3. T \in SUBSET K OBVIOUS
    <3>4. /\ g[T] = f[FirstOf(T)] + g[T \ {FirstOf(T)}]
          /\ h[T] = f[FirstOf(T)] + h[T \ {FirstOf(T)}]
      BY <3>3, <2>2, <1>0
    <3>. QED BY <3>2, <3>4
  <2>. QED BY <2>1, <2>2
<1>3. \A T \in SUBSET L : T \in G
  <2>. HIDE DEF G
  <2>. QED BY <1>1, <1>2, SubsetInduction
<1>. QED BY <1>3

(* The sums over the subsets of a finite set are defined.                    *)
LEMMA SumsDefined ==
    ASSUME NEW f, NEW S, IsFiniteSet(S)
    PROVE  \E g : Sums(g, f, S)
<1>. DEFINE Has(T) == \E g : Sums(g, f, T)
            G == {T \in SUBSET S : Has(T)}
            sumsOf(T) == CHOOSE g : Sums(g, f, T)
<1>1. ASSUME NEW T \in SUBSET S, \A U \in SUBSET T : U # T => U \in G
      PROVE  T \in G
  <2>. DEFINE R(s) == s \ {FirstOf(s)}
              v(s) == IF s = {} THEN 0 ELSE f[FirstOf(s)] + sumsOf(R(s))[R(s)]
              h == [s \in SUBSET T |-> v(s)]
  <2>1. \A s \in SUBSET T : s # {} => FirstOf(s) \in s /\ R(s) \in SUBSET T /\ R(s) # T
    BY DEF FirstOf
  <2>2. \A U \in SUBSET T : U # T => Sums(sumsOf(U), f, U)
    BY <1>1
  <2>. HIDE DEF sumsOf, R
  <2>3. \A s \in SUBSET T : h[s] = v(s) OBVIOUS
  <2>4. ASSUME NEW u \in SUBSET T, u # T
        PROVE  h[u] = sumsOf(u)[u]
    <3>1. Sums(sumsOf(u), f, u) BY <2>2, <2>4
    <3>2. CASE u = {} BY <3>1, <3>2, <2>3, SumsAt
    <3>3. CASE u # {}
      <4>1. R(u) \in SUBSET u /\ R(u) \in SUBSET T /\ R(u) # T BY <2>1, <3>3 DEF R
      <4>2. Sums(sumsOf(R(u)), f, R(u)) BY <4>1, <2>2
      <4>3. IsFiniteSet(u) BY FS_Subset
      <4>4. sumsOf(u)[R(u)] = sumsOf(R(u))[R(u)]
        <5>1. PICK a : a = sumsOf(u) OBVIOUS
        <5>2. PICK b : b = sumsOf(R(u)) OBVIOUS
        <5>3. \A s \in SUBSET R(u) : a[s] = b[s]
          BY <3>1, <4>1, <4>2, <4>3, <5>1, <5>2, SumsAgree
        <5>. QED BY <5>1, <5>2, <5>3
      <4>5. sumsOf(u)[u] = f[FirstOf(u)] + sumsOf(u)[R(u)] BY <3>1, <3>3, SumsAt DEF R
      <4>6. h[u] = f[FirstOf(u)] + sumsOf(R(u))[R(u)] BY <2>3, <3>3
      <4>. QED BY <4>4, <4>5, <4>6
    <3>. QED BY <3>2, <3>3
  <2>5. \A s \in SUBSET T : h[s] = IF s = {} THEN 0 ELSE f[FirstOf(s)] + h[R(s)]
    BY <2>1, <2>3, <2>4
  <2>. HIDE DEF h, v
  <2>6. h = [s \in SUBSET T |-> IF s = {} THEN 0 ELSE f[FirstOf(s)] + h[R(s)]]
    <3>1. h = [s \in SUBSET T |-> v(s)] BY DEF h
    <3>2. h = [s \in SUBSET T |-> h[s]] BY <3>1
    <3>. QED BY <2>5, <3>2
  <2>7. Sums(h, f, T) BY <2>6 DEF Sums, R
  <2>. QED BY <2>7
<1>2. \A T \in SUBSET S : T \in G
  <2>. HIDE DEF G
  <2>. QED BY <1>1, SubsetInduction
<1>3. S \in G BY <1>2
<1>. QED BY <1>3

(* In particular on the set itself.                                         *)
LEMMA SumsAgreeAll ==
    \A f, K, L, g, h :
        IsFiniteSet(K) /\ L \subseteq K /\ Sums(g, f, K) /\ Sums(h, f, L) => g[L] = h[L]
<1>. TAKE f, K, L, g, h
<1>. HAVE IsFiniteSet(K) /\ L \subseteq K /\ Sums(g, f, K) /\ Sums(h, f, L)
<1>1. L \in SUBSET K OBVIOUS
<1>2. L \in SUBSET L OBVIOUS
<1>. QED BY <1>1, <1>2, SumsAgree

(* One element of a sum, taken first.                                        *)
LEMMA TotalNext ==
    ASSUME NEW f, NEW S, IsFiniteSet(S)
    PROVE  /\ Total(f, {}) = 0
           /\ S # {} => /\ FirstOf(S) \in S
                        /\ Total(f, S) = f[FirstOf(S)] + Total(f, S \ {FirstOf(S)})
<1>. DEFINE over(K) == CHOOSE g : Sums(g, f, K)
<1>1. \A K : IsFiniteSet(K) => Sums(over(K), f, K) BY SumsDefined
<1>2. \A K : Total(f, K) = over(K)[K] BY TotalIsSum
<1>. HIDE DEF over
<1>3. Total(f, {}) = 0
  <2>1. Sums(over({}), f, {}) BY <1>1, FS_EmptySet
  <2>. QED BY <2>1, <1>2, SumsAt
<1>4. ASSUME S # {}
      PROVE  /\ FirstOf(S) \in S
             /\ Total(f, S) = f[FirstOf(S)] + Total(f, S \ {FirstOf(S)})
  <2>1. PICK R : R = S \ {FirstOf(S)} OBVIOUS
  <2>2. FirstOf(S) \in S /\ R \in SUBSET S BY <1>4, <2>1 DEF FirstOf
  <2>3. IsFiniteSet(R) BY <2>2, FS_Subset
  <2>4. Sums(over(S), f, S) /\ Sums(over(R), f, R) BY <1>1, <2>3
  <2>5. over(S)[S] = f[FirstOf(S)] + over(S)[R] BY <1>4, <2>1, <2>4, SumsAt
  <2>6. over(S)[R] = over(R)[R] BY <2>2, <2>4, SumsAgreeAll
  <2>. QED BY <1>2, <2>1, <2>2, <2>5, <2>6
<1>. QED BY <1>3, <1>4

(* Sums of numbers are numbers.                                              *)
LEMMA TotalType ==
    ASSUME NEW f, NEW S, IsFiniteSet(S)
    PROVE  /\ (\A x \in S : f[x] \in Int) => Total(f, S) \in Int
           /\ (\A x \in S : f[x] \in Nat) => Total(f, S) \in Nat
<1>1. ASSUME NEW N \in {Int, Nat}, \A x \in S : f[x] \in N
      PROVE  Total(f, S) \in N
  <2>. DEFINE G == {T \in SUBSET S : Total(f, T) \in N}
  <2>1. ASSUME NEW T \in SUBSET S, \A U \in SUBSET T : U # T => U \in G
        PROVE  T \in G
    <3>0. IsFiniteSet(T) BY FS_Subset
    <3>1. CASE T = {}
      <4>1. Total(f, T) = 0 BY <3>0, <3>1, TotalNext
      <4>2. 0 \in N BY <1>1
      <4>. QED BY <4>1, <4>2
    <3>2. CASE T # {}
      <4>1. PICK x \in T : Total(f, T) = f[x] + Total(f, T \ {x}) BY <3>0, <3>2, TotalNext
      <4>2. T \ {x} \in G BY <2>1
      <4>3. Total(f, T \ {x}) \in N BY <4>2
      <4>4. f[x] \in N BY <1>1
      <4>5. \A a, b \in N : a + b \in N BY <1>1
      <4>6. f[x] + Total(f, T \ {x}) \in N BY <4>3, <4>4, <4>5
      <4>. QED BY <4>1, <4>6
    <3>. QED BY <3>1, <3>2
  <2>2. \A T \in SUBSET S : T \in G
    <3>. HIDE DEF G
    <3>. QED BY <2>1, SubsetInduction
  <2>3. S \in G BY <2>2
  <2>. QED BY <2>3
<1>. QED BY <1>1

(* Any element may be taken first.                                           *)
LEMMA TotalTake ==
    ASSUME NEW f, NEW S, IsFiniteSet(S), \A x \in S : f[x] \in Int
    PROVE  \A y \in S : Total(f, S) = f[y] + Total(f, S \ {y})
<1>. DEFINE G == {T \in SUBSET S : \A y \in T : Total(f, T) = f[y] + Total(f, T \ {y})}
<1>1. ASSUME NEW T \in SUBSET S, \A U \in SUBSET T : U # T => U \in G
      PROVE  T \in G
  <2>1. ASSUME NEW y \in T PROVE Total(f, T) = f[y] + Total(f, T \ {y})
    <3>1. IsFiniteSet(T) BY FS_Subset
    <3>2. PICK x \in T : Total(f, T) = f[x] + Total(f, T \ {x}) BY <3>1, TotalNext
    <3>3. CASE x = y BY <3>2, <3>3
    <3>4. CASE x # y
      <4>1. T \ {x} \in G /\ T \ {y} \in G BY <1>1
      <4>2. Total(f, T \ {x}) = f[y] + Total(f, (T \ {x}) \ {y})
        BY <4>1, <3>4
      <4>3. Total(f, T \ {y}) = f[x] + Total(f, (T \ {y}) \ {x})
        BY <4>1, <3>4
      <4>4. PICK R : R = (T \ {x}) \ {y} OBVIOUS
      <4>5. R = (T \ {y}) \ {x} BY <4>4
      <4>6. Total(f, R) \in Int
        <5>1. R \in SUBSET S BY <4>4
        <5>2. IsFiniteSet(R) BY <5>1, FS_Subset
        <5>3. \A z \in R : f[z] \in Int BY <5>1
        <5>. QED BY <5>2, <5>3, TotalType
      <4>7. f[x] \in Int /\ f[y] \in Int OBVIOUS
      <4>8. PICK r \in Int : r = Total(f, R) BY <4>6
      <4>9. Total(f, T) = f[x] + (f[y] + r) /\ Total(f, T \ {y}) = f[x] + r
        BY <3>2, <4>2, <4>3, <4>4, <4>5, <4>8
      <4>. QED BY <4>7, <4>9
    <3>. QED BY <3>3, <3>4
  <2>. QED BY <2>1
<1>2. \A T \in SUBSET S : T \in G
  <2>. HIDE DEF G
  <2>. QED BY <1>1, SubsetInduction
<1>3. S \in G BY <1>2
<1>. QED BY <1>3

(* A sum depends on the summands alone.                                      *)
LEMMA TotalSame ==
    ASSUME NEW f, NEW g, NEW S, IsFiniteSet(S), \A x \in S : f[x] = g[x]
    PROVE  Total(f, S) = Total(g, S)
<1>. DEFINE G == {T \in SUBSET S : Total(f, T) = Total(g, T)}
<1>1. ASSUME NEW T \in SUBSET S, \A U \in SUBSET T : U # T => U \in G
      PROVE  T \in G
  <2>0. IsFiniteSet(T) BY FS_Subset
  <2>1. CASE T = {}
    <3>1. Total(f, {}) = 0 BY FS_EmptySet, TotalNext
    <3>2. Total(g, {}) = 0 BY FS_EmptySet, TotalNext
    <3>. QED BY <3>1, <3>2, <2>1
  <2>2. CASE T # {}
    <3>1. PICK x : x = FirstOf(T) OBVIOUS
    <3>2. x \in T /\ Total(f, T) = f[x] + Total(f, T \ {x}) BY <2>0, <2>2, <3>1, TotalNext
    <3>3. Total(g, T) = g[x] + Total(g, T \ {x}) BY <2>0, <2>2, <3>1, TotalNext
    <3>4. T \ {x} \in G BY <1>1, <3>2
    <3>. QED BY <3>2, <3>3, <3>4
  <2>. QED BY <2>1, <2>2
<1>2. \A T \in SUBSET S : T \in G
  <2>. HIDE DEF G
  <2>. QED BY <1>1, SubsetInduction
<1>3. S \in G BY <1>2
<1>. QED BY <1>3

(* A sum of naturals is not less than one over part of its keys.             *)
LEMMA TotalPart ==
    ASSUME NEW f, NEW S, IsFiniteSet(S), \A x \in S : f[x] \in Nat, NEW R \in SUBSET S
    PROVE  Total(f, R) <= Total(f, S)
<1>. DEFINE G == {T \in SUBSET S : \A U \in SUBSET T : Total(f, U) <= Total(f, T)}
<1>0. \A T \in SUBSET S : IsFiniteSet(T) /\ Total(f, T) \in Nat
  <2>1. ASSUME NEW T \in SUBSET S PROVE IsFiniteSet(T) /\ Total(f, T) \in Nat
    <3>1. IsFiniteSet(T) BY FS_Subset
    <3>. QED BY <3>1, TotalType
  <2>. QED BY <2>1
<1>1. ASSUME NEW T \in SUBSET S, \A U \in SUBSET T : U # T => U \in G
      PROVE  T \in G
  <2>1. ASSUME NEW U \in SUBSET T, U # T PROVE Total(f, U) <= Total(f, T)
    <3>1. PICK y \in T : y \notin U BY <2>1
    <3>2. T \ {y} \in G /\ U \in SUBSET (T \ {y}) BY <3>1, <1>1
    <3>3. Total(f, U) <= Total(f, T \ {y}) BY <3>2
    <3>4. Total(f, T) = f[y] + Total(f, T \ {y})
      <4>1. \A x \in T : f[x] \in Int OBVIOUS
      <4>2. IsFiniteSet(T) BY <1>0
      <4>. QED BY <4>1, <4>2, TotalTake
    <3>5. Total(f, T \ {y}) \in Nat /\ Total(f, U) \in Nat /\ f[y] \in Nat
      <4>1. T \ {y} \in SUBSET S /\ U \in SUBSET S /\ y \in S OBVIOUS
      <4>. QED BY <4>1, <1>0
    <3>6. PICK a \in Nat, b \in Nat, c \in Nat :
             a = Total(f, U) /\ b = Total(f, T \ {y}) /\ c = f[y]
      BY <3>5
    <3>7. Total(f, T) = c + b /\ a <= b BY <3>3, <3>4, <3>6
    <3>. QED BY <3>6, <3>7
  <2>2. Total(f, T) <= Total(f, T)
    <3>1. Total(f, T) \in Nat BY <1>0
    <3>2. \A n \in Nat : n <= n OBVIOUS
    <3>. QED BY <3>1, <3>2
  <2>. QED BY <2>1, <2>2
<1>2. \A T \in SUBSET S : T \in G
  <2>. HIDE DEF G
  <2>. QED BY <1>1, SubsetInduction
<1>3. S \in G BY <1>2
<1>. QED BY <1>3

(* A bound of the summands bounds the sum.                                   *)
LEMMA TotalBound ==
    ASSUME NEW f, NEW S, IsFiniteSet(S), NEW b \in Nat, \A x \in S : f[x] \in 0..b
    PROVE  Total(f, S) \in Nat /\ Total(f, S) <= b * Cardinality(S)
<1>. DEFINE G == {T \in SUBSET S : Total(f, T) <= b * Cardinality(T)}
<1>0. \A T \in SUBSET S : IsFiniteSet(T) /\ Total(f, T) \in Nat /\ Cardinality(T) \in Nat
  <2>1. ASSUME NEW T \in SUBSET S
        PROVE  IsFiniteSet(T) /\ Total(f, T) \in Nat /\ Cardinality(T) \in Nat
    <3>1. IsFiniteSet(T) BY FS_Subset
    <3>2. \A x \in T : f[x] \in Nat OBVIOUS
    <3>. QED BY <3>1, <3>2, TotalType, FS_CardinalityType
  <2>. QED BY <2>1
<1>1. ASSUME NEW T \in SUBSET S, \A U \in SUBSET T : U # T => U \in G
      PROVE  T \in G
  <2>1. CASE T = {}
    <3>1. Total(f, T) = 0 /\ Cardinality(T) = 0 BY <2>1, FS_EmptySet, TotalNext
    <3>. QED BY <3>1
  <2>2. CASE T # {}
    <3>1. PICK x \in T : Total(f, T) = f[x] + Total(f, T \ {x}) BY <1>0, <2>2, TotalNext
    <3>2. T \ {x} \in G BY <1>1
    <3>3. IsFiniteSet(T) BY <1>0
    <3>4. Cardinality(T \ {x}) = Cardinality(T) - 1 BY <3>3, FS_RemoveElement
    <3>5. T \ {x} \in SUBSET S OBVIOUS
    <3>6. PICK a \in Nat, n \in Nat, m \in Nat, c \in 0..b :
             a = Total(f, T \ {x}) /\ n = Cardinality(T) /\ c = f[x]
             /\ m = Cardinality(T \ {x})
      BY <1>0, <3>5
    <3>7. m = n - 1 /\ a <= b * m /\ Total(f, T) = c + a BY <3>1, <3>2, <3>4, <3>6
    <3>8. b * (n - 1) = b * n - b OBVIOUS
    <3>9. b * n \in Int /\ a <= b * n - b BY <3>7, <3>8
    <3>10. c + a <= b * n BY <3>9
    <3>. QED BY <3>6, <3>7, <3>10
  <2>. QED BY <2>1, <2>2
<1>2. \A T \in SUBSET S : T \in G
  <2>. HIDE DEF G
  <2>. QED BY <1>1, SubsetInduction
<1>3. S \in G BY <1>2
<1>. QED BY <1>0, <1>3

-----------------------------------------------------------------------------
(* Tenants.                                                                  *)

TenantFields ==
    {"ids", "config", "admins", "caps", "rates", "order", "data", "indices", "last"}
ConfigFields ==
    {"creator", "status", "max_events", "max_metadata", "rate_limit", "total_events"}

Events(t) == tenants.config[t].total_events

(* Every tenant counts its events, and its order has that many positions.    *)
TenantsCounted ==
    /\ DOMAIN tenants = TenantFields
    /\ \A t \in DOMAIN tenants.config :
          DOMAIN tenants.config[t] = ConfigFields /\ Events(t) \in Nat
    /\ DOMAIN tenants.order =
          UNION {{t} \X (0..Events(t) - 1) : t \in DOMAIN tenants.config}

(* The id at a position is one of the tenant's, stored, and listed by type.  *)
ListedAs(id, t, n) ==
    /\ id[1] = t
    /\ <<t, id>> \in DOMAIN tenants.data
    /\ <<t, id[3]>> \in DOMAIN tenants.indices
    /\ \E i \in DOMAIN tenants.indices[<<t, id[3]>>] :
          tenants.indices[<<t, id[3]>>][i] = n

TenantsListed ==
    \A t \in DOMAIN tenants.config : \A n \in 0..(Events(t) - 1) :
        ListedAs(tenants.order[<<t, n>>], t, n)

(* A stored event knows its id, its type and its last position.              *)
TenantsStored ==
    \A k \in DOMAIN tenants.data :
        LET e  == tenants.data[k]
            t  == k[1]
            id == k[2]
        IN  /\ k = <<t, id>> /\ t \in DOMAIN tenants.config
            /\ e.event_id = id
            /\ e.event_type = id[3]
            /\ e.index \in 0..(Events(t) - 1)
            /\ tenants.order[<<t, e.index>>] = id
            /\ e.prev_hash = IF e.index = 0 THEN NoTenantEvent
                             ELSE tenants.order[<<t, e.index - 1>>]

(* An index ascends through positions of its tenant and its type.            *)
TenantsIndexed ==
    \A k \in DOMAIN tenants.indices :
        /\ k = <<k[1], k[2]>> /\ k[1] \in DOMAIN tenants.config
        /\ tenants.indices[k] \in Seq(Nat)
        /\ \A i \in DOMAIN tenants.indices[k] :
              /\ tenants.indices[k][i] \in 0..(Events(k[1]) - 1)
              /\ tenants.order[<<k[1], tenants.indices[k][i]>>][3] = k[2]
        /\ \A i, j \in DOMAIN tenants.indices[k] :
              i < j => tenants.indices[k][i] < tenants.indices[k][j]

(* The next event is linked to the last position of its tenant.              *)
TenantsLinked ==
    /\ DOMAIN tenants.last = DOMAIN tenants.config
    /\ \A t \in DOMAIN tenants.config :
          tenants.last[t] = IF Events(t) = 0 THEN NoTenantEvent
                            ELSE tenants.order[<<t, Events(t) - 1>>]

TenantInv ==
    TenantsCounted /\ TenantsListed /\ TenantsStored /\ TenantsIndexed /\ TenantsLinked

(* A position is a tenant's and below its count.                             *)
LEMMA TenantPositions ==
    ASSUME TenantsCounted
    PROVE  /\ \A t \in DOMAIN tenants.config : \A n \in 0..(Events(t) - 1) :
                 <<t, n>> \in DOMAIN tenants.order
           /\ \A k \in DOMAIN tenants.order :
                 /\ k = <<k[1], k[2]>>
                 /\ k[1] \in DOMAIN tenants.config
                 /\ k[2] \in 0..(Events(k[1]) - 1)
BY DEF TenantsCounted

(* The inductive invariant says what is promised.                            *)
LEMMA TenantInvIsolates ==
    ASSUME TenantInv
    PROVE  TenantsIsolated
<1>. USE DEF TenantInv
<1>1. DOMAIN tenants.order =
         UNION {{t} \X (0..tenants.config[t].total_events - 1) : t \in DOMAIN tenants.config}
  BY DEF TenantsCounted, Events
<1>2. ASSUME NEW k \in DOMAIN tenants.order
      PROVE  /\ tenants.order[k][1] = k[1]
             /\ LET type == get_tenant_event_by_index(k[1], k[2]).event_type
                IN  \E i \in DOMAIN ListUnder(tenants.indices, <<k[1], type>>) :
                       tenants.indices[<<k[1], type>>][i] = k[2]
  <2>1. PICK t \in DOMAIN tenants.config : k = <<t, k[2]>> /\ k[2] \in 0..(Events(t) - 1)
    BY TenantPositions
  <2>2. PICK id : id = tenants.order[k] OBVIOUS
  <2>3. /\ id[1] = t
        /\ <<t, id>> \in DOMAIN tenants.data
        /\ <<t, id[3]>> \in DOMAIN tenants.indices
        /\ \E i \in DOMAIN tenants.indices[<<t, id[3]>>] :
              tenants.indices[<<t, id[3]>>][i] = k[2]
    BY <2>1, <2>2 DEF TenantsListed, ListedAs
  <2>4. tenants.data[<<t, id>>].event_type = id[3] BY <2>3 DEF TenantsStored
  <2>5. get_tenant_event_by_index(k[1], k[2]).event_type = id[3]
    BY <2>1, <2>2, <2>4 DEF get_tenant_event_by_index
  <2>. QED BY <2>1, <2>2, <2>3, <2>5 DEF ListUnder, GetOr
<1>3. ASSUME NEW k \in DOMAIN tenants.indices, NEW i \in DOMAIN tenants.indices[k],
             NEW j \in DOMAIN tenants.indices[k]
      PROVE  /\ i < j => tenants.indices[k][i] < tenants.indices[k][j]
             /\ <<k[1], tenants.indices[k][i]>> \in DOMAIN tenants.order
             /\ get_tenant_event_by_type(k[1], k[2], i - 1).event_type = k[2]
  <2>1. PICK t \in DOMAIN tenants.config :
          /\ k = <<t, k[2]>>
          /\ tenants.indices[k] \in Seq(Nat)
          /\ tenants.indices[k][i] \in 0..(Events(t) - 1)
          /\ tenants.order[<<t, tenants.indices[k][i]>>][3] = k[2]
          /\ i < j => tenants.indices[k][i] < tenants.indices[k][j]
    BY DEF TenantsIndexed
  <2>2. PICK n \in 0..(Events(t) - 1) : n = tenants.indices[k][i] BY <2>1
  <2>3. PICK id : id = tenants.order[<<t, n>>] OBVIOUS
  <2>4. <<t, id>> \in DOMAIN tenants.data BY <2>2, <2>3 DEF TenantsListed, ListedAs
  <2>5. tenants.data[<<t, id>>].event_type = id[3] BY <2>4 DEF TenantsStored
  <2>6. i \in Int /\ (i - 1) + 1 = i BY <2>1
  <2>7. PICK type : k = <<t, type>> BY <2>1
  <2>8. k[1] = t /\ k[2] = type BY <2>7
  <2>9. get_tenant_event_by_type(t, type, i - 1) = tenants.data[<<t, id>>]
    BY <2>2, <2>3, <2>6, <2>7 DEF get_tenant_event_by_type, get_tenant_event_by_index
  <2>10. <<t, n>> \in DOMAIN tenants.order BY TenantPositions
  <2>. QED BY <2>1, <2>2, <2>3, <2>5, <2>8, <2>9, <2>10
<1>4. ASSUME NEW k \in DOMAIN tenants.data
      PROVE  LET e == tenants.data[k]
             IN  /\ tenants.order[<<k[1], e.index>>] = e.event_id
                 /\ e.prev_hash = IF e.index = 0 THEN NoTenantEvent
                                  ELSE tenants.order[<<k[1], e.index - 1>>]
  BY DEF TenantsStored
<1>. QED BY <1>1, <1>2, <1>3, <1>4 DEF TenantsIsolated

(* A call that logs nothing and founds no tenant.                            *)
LEMMA TenantKept ==
    ASSUME TenantInv,
           DOMAIN tenants' = TenantFields,
           DOMAIN tenants'.config = DOMAIN tenants.config,
           \A t \in DOMAIN tenants.config :
              /\ DOMAIN tenants'.config[t] = ConfigFields
              /\ tenants'.config[t].total_events = tenants.config[t].total_events,
           tenants'.order = tenants.order, tenants'.data = tenants.data,
           tenants'.indices = tenants.indices, tenants'.last = tenants.last
    PROVE  TenantInv'
<1>. USE DEF TenantInv
<1>1. \A t \in DOMAIN tenants.config : Events(t)' = Events(t) BY DEF Events
<1>2. TenantsCounted'
  BY <1>1 DEF TenantsCounted
<1>3. TenantsListed'
  <2>1. \A id, t, n : ListedAs(id, t, n) => ListedAs(id, t, n)' BY DEF ListedAs
  <2>. QED BY <1>1, <2>1 DEF TenantsListed
<1>4. TenantsStored'
  BY <1>1, SMTT(30) DEF TenantsStored
<1>5. TenantsIndexed'
  BY <1>1 DEF TenantsIndexed
<1>6. TenantsLinked'
  BY <1>1 DEF TenantsLinked
<1>. QED BY <1>2, <1>3, <1>4, <1>5, <1>6

(* A new tenant has no events.                                               *)
LEMMA TenantFounded ==
    ASSUME TenantInv, NEW c, NEW t, NEW v, NEW m, NEW r, initialize_tenant(c, t, v, m, r)
    PROVE  TenantInv'
<1>. USE DEF TenantInv
<1>1. /\ t \notin DOMAIN tenants.config
      /\ DOMAIN tenants = TenantFields
  BY DEF initialize_tenant, TenantsCounted
<1>2. /\ DOMAIN tenants' = TenantFields
      /\ tenants'.order = tenants.order
      /\ tenants'.data = tenants.data
      /\ tenants'.indices = tenants.indices
      /\ tenants'.last = Put(tenants.last, t, NoTenantEvent)
      /\ \E f : /\ DOMAIN f = ConfigFields /\ f.total_events = 0
                /\ tenants'.config = Put(tenants.config, t, f)
  BY <1>1 DEF initialize_tenant, TenantFields, ConfigFields
<1>3. /\ DOMAIN tenants'.config = DOMAIN tenants.config \cup {t}
      /\ Events(t)' = 0 /\ DOMAIN tenants'.config[t] = ConfigFields
      /\ \A x \in DOMAIN tenants.config :
            tenants'.config[x] = tenants.config[x] /\ Events(x)' = Events(x)
      /\ DOMAIN tenants'.last = DOMAIN tenants.last \cup {t}
      /\ tenants'.last[t] = NoTenantEvent
      /\ \A x \in DOMAIN tenants.config : tenants'.last[x] = tenants.last[x]
  BY <1>1, <1>2 DEF Put, Events, TenantsLinked
<1>4. 0..(0 - 1) = {} OBVIOUS
<1>5. TenantsCounted'
  <2>1. \A x \in DOMAIN tenants'.config :
           DOMAIN tenants'.config[x] = ConfigFields /\ Events(x)' \in Nat
    BY <1>3 DEF TenantsCounted
  <2>2. DOMAIN tenants.order =
          UNION {{x} \X (0..Events(x) - 1) : x \in DOMAIN tenants.config}
    BY DEF TenantsCounted
  <2>3. UNION {{x} \X (0..Events(x)' - 1) : x \in DOMAIN tenants'.config}
          = UNION {{x} \X (0..Events(x) - 1) : x \in DOMAIN tenants.config}
    BY <1>3, <1>4
  <2>. QED BY <1>2, <2>1, <2>2, <2>3 DEF TenantsCounted
<1>6. TenantsListed'
  <2>1. \A id, x, n : ListedAs(id, x, n) => ListedAs(id, x, n)' BY <1>2 DEF ListedAs
  <2>. QED BY <1>2, <1>3, <1>4, <2>1 DEF TenantsListed
<1>7. TenantsStored'
  BY <1>2, <1>3 DEF TenantsStored
<1>8. TenantsIndexed'
  BY <1>2, <1>3 DEF TenantsIndexed
<1>9. TenantsLinked'
  BY <1>2, <1>3 DEF TenantsLinked
<1>. QED BY <1>5, <1>6, <1>7, <1>8, <1>9

(* What logging writes: n is the position, e the record.                     *)
Logging(t, type, n, id, e) ==
    /\ t \in DOMAIN tenants.config /\ n = Events(t)
    /\ id[1] = t /\ id[3] = type
    /\ e.index = n /\ e.event_type = type /\ e.event_id = id
    /\ e.prev_hash = tenants.last[t]
    /\ DOMAIN tenants' = TenantFields
    /\ DOMAIN tenants'.config = DOMAIN tenants.config
    /\ \A x \in DOMAIN tenants.config :
          /\ DOMAIN tenants'.config[x] = ConfigFields
          /\ Events(x)' = IF x = t THEN n + 1 ELSE Events(x)
    /\ tenants'.data = Put(tenants.data, <<t, id>>, e)
    /\ tenants'.order = Put(tenants.order, <<t, n>>, id)
    /\ tenants'.last = [tenants.last EXCEPT ![t] = id]
    /\ tenants'.indices = PushTo(tenants.indices, <<t, type>>, n)

(* log_tenant_event writes that, whatever its caller and limits.             *)
LEMMA LoggingWrites ==
    ASSUME TenantInv, NEW s, NEW t \in DOMAIN tenants.config, NEW type, NEW m,
           log_tenant_event(s, t, type, m)
    PROVE  \E id, e : Logging(t, type, Events(t), id, e)
<1>. DEFINE id == compute_tenant_event_id(t, s, type, m)
            e  == [index |-> Events(t), timestamp |-> clock, event_type |-> type,
                   submitter |-> s, event_id |-> id, prev_hash |-> tenants.last[t]]
<1>1. DOMAIN tenants = TenantFields /\ DOMAIN tenants.config[t] = ConfigFields
  BY DEF TenantInv, TenantsCounted
<1>2. id[1] = t /\ id[3] = type BY DEF compute_tenant_event_id
<1>3. /\ DOMAIN tenants' = TenantFields
      /\ tenants'.data = Put(tenants.data, <<t, id>>, e)
      /\ tenants'.order = Put(tenants.order, <<t, Events(t)>>, id)
      /\ tenants'.last = [tenants.last EXCEPT ![t] = id]
      /\ tenants'.indices = PushTo(tenants.indices, <<t, type>>, Events(t))
      /\ tenants'.config = [tenants.config EXCEPT ![t] =
                              [@ EXCEPT !.total_events = Events(t) + 1]]
  BY <1>1 DEF log_tenant_event, TenantFields, Events, IndexedNext
<1>4. /\ DOMAIN tenants'.config = DOMAIN tenants.config
      /\ \A x \in DOMAIN tenants.config :
          /\ DOMAIN tenants'.config[x] = ConfigFields
          /\ Events(x)' = IF x = t THEN Events(t) + 1 ELSE Events(x)
  BY <1>1, <1>3 DEF Events, ConfigFields, TenantInv, TenantsCounted
<1>5. Logging(t, type, Events(t), id, e)
  <2>. HIDE DEF id
  <2>. QED BY <1>2, <1>3, <1>4 DEF Logging
<1>. QED BY <1>5

(* A logged event extends its tenant's order, index and chain by one, and    *)
(* touches no other tenant's; one with a known id takes the later place.     *)
LEMMA TenantLogged ==
    ASSUME TenantInv, NEW t, NEW type, NEW n, NEW id, NEW e, Logging(t, type, n, id, e)
    PROVE  TenantInv'
<1>. USE DEF TenantInv
<1>1. /\ t \in DOMAIN tenants.config /\ n = Events(t) /\ n \in Nat
      /\ DOMAIN tenants'.config = DOMAIN tenants.config
      /\ \A x \in DOMAIN tenants.config :
            DOMAIN tenants'.config[x] = ConfigFields /\ Events(x) \in Nat
  BY DEF Logging, TenantsCounted
<1>2. /\ Events(t)' = n + 1
      /\ \A x \in DOMAIN tenants.config : x # t => Events(x)' = Events(x)
      /\ \A x \in DOMAIN tenants.config : Events(x) <= Events(x)' /\ Events(x)' \in Nat
  BY <1>1 DEF Logging
<1>3. /\ DOMAIN tenants'.order = DOMAIN tenants.order \cup {<<t, n>>}
      /\ tenants'.order[<<t, n>>] = id
      /\ \A k \in DOMAIN tenants.order : tenants'.order[k] = tenants.order[k]
  <2>1. <<t, n>> \notin DOMAIN tenants.order BY <1>1, TenantPositions
  <2>. QED BY <2>1 DEF Logging, Put
<1>4. /\ DOMAIN tenants'.data = DOMAIN tenants.data \cup {<<t, id>>}
      /\ tenants'.data[<<t, id>>] = e
      /\ \A k \in DOMAIN tenants.data : k # <<t, id>> => tenants'.data[k] = tenants.data[k]
  BY DEF Logging, Put
<1>5. /\ DOMAIN tenants'.indices = DOMAIN tenants.indices \cup {<<t, type>>}
      /\ tenants'.indices[<<t, type>>] = Append(ListUnder(tenants.indices, <<t, type>>), n)
      /\ \A k \in DOMAIN tenants.indices :
            k # <<t, type>> => tenants'.indices[k] = tenants.indices[k]
  BY DEF Logging, PushTo, Put, ListUnder
<1>6. PICK list : list = ListUnder(tenants.indices, <<t, type>>) OBVIOUS
<1>7. /\ list \in Seq(Nat)
      /\ \A i \in 1..Len(list) : /\ list[i] \in 0..(n - 1)
                                 /\ tenants.order[<<t, list[i]>>][3] = type
      /\ \A i, j \in 1..Len(list) : i < j => list[i] < list[j]
      /\ <<t, type>> \in DOMAIN tenants.indices => list = tenants.indices[<<t, type>>]
  <2>1. CASE <<t, type>> \in DOMAIN tenants.indices
    <3>1. list = tenants.indices[<<t, type>>] BY <1>6, <2>1 DEF ListUnder, GetOr
    <3>2. list \in Seq(Nat) /\ DOMAIN list = 1..Len(list)
      BY <2>1, <3>1 DEF TenantsIndexed
    <3>3. <<t, type>>[1] = t /\ <<t, type>>[2] = type OBVIOUS
    <3>. QED BY <1>1, <2>1, <3>1, <3>2, <3>3 DEF TenantsIndexed
  <2>2. CASE <<t, type>> \notin DOMAIN tenants.indices
    BY <1>6, <2>2 DEF ListUnder, GetOr
  <2>. QED BY <2>1, <2>2
<1>8. TenantsCounted'
  <2>1. UNION {{x} \X (0..Events(x)' - 1) : x \in DOMAIN tenants.config}
          = (UNION {{x} \X (0..Events(x) - 1) : x \in DOMAIN tenants.config}) \cup {<<t, n>>}
    <3>1. 0..((n + 1) - 1) = (0..(n - 1)) \cup {n} BY <1>1
    <3>2. \A x \in DOMAIN tenants.config :
            0..(Events(x)' - 1) = IF x = t THEN (0..(Events(x) - 1)) \cup {n}
                                  ELSE 0..(Events(x) - 1)
      BY <1>1, <1>2, <3>1
    <3>3. \A x \in DOMAIN tenants.config : \A k :
            k \in {x} \X (0..(Events(x)' - 1))
               <=> k \in {x} \X (0..(Events(x) - 1)) \/ (x = t /\ k = <<t, n>>)
      <4>. SUFFICES ASSUME NEW x \in DOMAIN tenants.config
                    PROVE  \A k : k \in {x} \X (0..(Events(x)' - 1))
                              <=> k \in {x} \X (0..(Events(x) - 1)) \/ (x = t /\ k = <<t, n>>)
        OBVIOUS
      <4>1. CASE x = t
        <5>1. 0..(Events(x)' - 1) = (0..(Events(x) - 1)) \cup {n} BY <3>2, <4>1
        <5>. QED BY <4>1, <5>1
      <4>2. CASE x # t
        <5>1. 0..(Events(x)' - 1) = 0..(Events(x) - 1) BY <3>2, <4>2
        <5>. QED BY <4>2, <5>1
      <4>. QED BY <4>1, <4>2
    <3>4. \A k : (\E x \in DOMAIN tenants.config : k \in {x} \X (0..Events(x)' - 1))
              <=> \/ \E x \in DOMAIN tenants.config : k \in {x} \X (0..Events(x) - 1)
                  \/ k = <<t, n>>
      BY <1>1, <3>3
    <3>. QED BY <3>4
  <2>. QED BY <1>1, <1>2, <1>3, <2>1 DEF TenantsCounted, Logging
<1>9. TenantsLinked'
  <2>1. n + 1 # 0 /\ (n + 1) - 1 = n BY <1>1
  <2>2. \A x \in DOMAIN tenants.config : x # t /\ Events(x) # 0
          => <<x, Events(x) - 1>> \in DOMAIN tenants.order
    BY <1>1, TenantPositions
  <2>3. tenants'.last = [tenants.last EXCEPT ![t] = id] BY DEF Logging
  <2>. QED BY <1>1, <1>2, <1>3, <2>1, <2>2, <2>3 DEF TenantsLinked
<1>10. TenantsIndexed'
  <2>. SUFFICES ASSUME NEW k \in DOMAIN tenants'.indices
       PROVE  /\ k = <<k[1], k[2]>> /\ k[1] \in DOMAIN tenants'.config
              /\ tenants'.indices[k] \in Seq(Nat)
              /\ \A i \in DOMAIN tenants'.indices[k] :
                    /\ tenants'.indices[k][i] \in 0..(Events(k[1])' - 1)
                    /\ tenants'.order[<<k[1], tenants'.indices[k][i]>>][3] = k[2]
              /\ \A i, j \in DOMAIN tenants'.indices[k] :
                    i < j => tenants'.indices[k][i] < tenants'.indices[k][j]
    BY DEF TenantsIndexed
  <2>1. CASE k = <<t, type>>
    <3>1. k[1] = t /\ k[2] = type BY <2>1
    <3>2. tenants'.indices[k] = Append(list, n) BY <1>5, <1>6, <2>1
    <3>3. /\ Append(list, n) \in Seq(Nat)
          /\ DOMAIN Append(list, n) = 1..(Len(list) + 1)
          /\ Len(list) \in Nat
          /\ \A i \in 1..Len(list) : Append(list, n)[i] = list[i]
          /\ Append(list, n)[Len(list) + 1] = n
      BY <1>1, <1>7
    <3>6. /\ \A i \in 1..(Len(list) + 1) : i \in 1..Len(list) \/ i = Len(list) + 1
          /\ \A i, j \in 1..(Len(list) + 1) : i < j => i \in 1..Len(list)
      <4>1. PICK len \in Nat : len = Len(list) BY <3>3
      <4>2. /\ \A i \in 1..(len + 1) : i \in 1..len \/ i = len + 1
            /\ \A i, j \in 1..(len + 1) : i < j => i \in 1..len
        OBVIOUS
      <4>. QED BY <4>1, <4>2
    <3>4. ASSUME NEW i \in 1..(Len(list) + 1)
          PROVE  /\ Append(list, n)[i] \in 0..((n + 1) - 1)
                 /\ tenants'.order[<<t, Append(list, n)[i]>>][3] = type
      <4>1. CASE i = Len(list) + 1
        <5>1. Append(list, n)[i] = n BY <3>3, <4>1
        <5>2. n \in 0..((n + 1) - 1) BY <1>1
        <5>3. tenants'.order[<<t, n>>] = id /\ id[3] = type BY <1>3 DEF Logging
        <5>. QED BY <5>1, <5>2, <5>3, SMTT(30)
      <4>2. CASE i \in 1..Len(list)
        <5>1. list[i] \in 0..(n - 1) /\ tenants.order[<<t, list[i]>>][3] = type BY <1>7, <4>2
        <5>2. <<t, list[i]>> \in DOMAIN tenants.order BY <1>1, <5>1, TenantPositions
        <5>3. Append(list, n)[i] = list[i] BY <3>3, <4>2
        <5>4. list[i] \in 0..((n + 1) - 1) BY <1>1, <5>1
        <5>5. tenants'.order[<<t, list[i]>>] = tenants.order[<<t, list[i]>>] BY <1>3, <5>2
        <5>. QED BY <5>1, <5>3, <5>4, <5>5, SMTT(30)
      <4>. QED BY <3>6, <4>1, <4>2
    <3>5. ASSUME NEW i \in 1..(Len(list) + 1), NEW j \in 1..(Len(list) + 1), i < j
          PROVE  Append(list, n)[i] < Append(list, n)[j]
      <4>1. i \in 1..Len(list) /\ list[i] \in 0..(n - 1) BY <1>7, <3>5, <3>6
      <4>2. CASE j = Len(list) + 1 BY <1>1, <3>3, <4>1, <4>2
      <4>3. CASE j \in 1..Len(list) BY <1>7, <3>3, <3>5, <4>1, <4>3
      <4>. QED BY <3>6, <4>2, <4>3
    <3>. QED BY <1>1, <1>2, <2>1, <3>1, <3>2, <3>3, <3>4, <3>5
  <2>2. CASE k # <<t, type>>
    <3>1. k \in DOMAIN tenants.indices /\ tenants'.indices[k] = tenants.indices[k]
      BY <1>5, <2>2
    <3>2. k = <<k[1], k[2]>> /\ k[1] \in DOMAIN tenants.config
      BY <3>1 DEF TenantsIndexed
    <3>3. ASSUME NEW i \in DOMAIN tenants.indices[k]
          PROVE  /\ tenants.indices[k][i] \in 0..(Events(k[1])' - 1)
                 /\ tenants'.order[<<k[1], tenants.indices[k][i]>>][3] = k[2]
      <4>1. /\ tenants.indices[k][i] \in 0..(Events(k[1]) - 1)
            /\ tenants.order[<<k[1], tenants.indices[k][i]>>][3] = k[2]
        BY <3>1 DEF TenantsIndexed
      <4>2. <<k[1], tenants.indices[k][i]>> \in DOMAIN tenants.order
        BY <3>2, <4>1, TenantPositions
      <4>. QED BY <1>1, <1>2, <1>3, <3>2, <4>1, <4>2
    <3>. QED BY <1>1, <3>1, <3>2, <3>3 DEF TenantsIndexed
  <2>. QED BY <2>1, <2>2
<1>11. TenantsListed'
  <2>1. ASSUME NEW x, NEW type2, NEW i, <<x, type2>> \in DOMAIN tenants.indices,
               i \in DOMAIN tenants.indices[<<x, type2>>]
        PROVE  /\ <<x, type2>> \in DOMAIN tenants'.indices
               /\ i \in DOMAIN tenants'.indices[<<x, type2>>]
               /\ tenants'.indices[<<x, type2>>][i] = tenants.indices[<<x, type2>>][i]
    <3>1. CASE <<x, type2>> = <<t, type>>
      <4>1. list = tenants.indices[<<t, type>>] /\ i \in 1..Len(list) BY <1>7, <2>1, <3>1
      <4>2. /\ i \in DOMAIN Append(list, n) /\ Append(list, n)[i] = list[i]
        BY <1>1, <1>7, <4>1
      <4>. QED BY <1>5, <1>6, <3>1, <4>1, <4>2
    <3>2. CASE <<x, type2>> # <<t, type>> BY <1>5, <2>1, <3>2
    <3>. QED BY <3>1, <3>2
  <2>2. \A d, x, k : ListedAs(d, x, k) => ListedAs(d, x, k)'
    BY <1>4, <2>1 DEF ListedAs
  <2>3. ListedAs(id, t, n)'
    <3>1. id[1] = t /\ id[3] = type BY DEF Logging
    <3>2. /\ Len(list) + 1 \in DOMAIN tenants'.indices[<<t, type>>]
          /\ tenants'.indices[<<t, type>>][Len(list) + 1] = n
      BY <1>1, <1>5, <1>6, <1>7
    <3>. QED BY <1>4, <1>5, <3>1, <3>2 DEF ListedAs
  <2>4. ASSUME NEW x \in DOMAIN tenants.config, NEW k \in 0..(Events(x)' - 1)
        PROVE  \E d : d = tenants'.order[<<x, k>>] /\ ListedAs(d, x, k)'
    <3>1. CASE x = t /\ k = n BY <1>3, <2>3, <3>1
    <3>2. CASE k \in 0..(Events(x) - 1)
      <4>1. <<x, k>> \in DOMAIN tenants.order BY <3>2, TenantPositions
      <4>2. PICK d : d = tenants.order[<<x, k>>] OBVIOUS
      <4>3. ListedAs(d, x, k) BY <3>2, <4>2 DEF TenantsListed
      <4>4. ListedAs(d, x, k)' BY <2>2, <4>3
      <4>. QED BY <1>3, <4>1, <4>2, <4>4
    <3>. QED BY <1>1, <1>2, <3>1, <3>2
  <2>5. ASSUME NEW x \in DOMAIN tenants.config, NEW k \in 0..(Events(x)' - 1)
        PROVE  ListedAs(tenants.order[<<x, k>>], x, k)'
    <3>1. PICK d : d = tenants'.order[<<x, k>>] /\ ListedAs(d, x, k)' BY <2>4
    <3>. QED BY <3>1 DEF ListedAs
  <2>. QED BY <1>1, <2>5 DEF TenantsListed
<1>12. TenantsStored'
  <2>1. ASSUME NEW x \in DOMAIN tenants.config, NEW k \in 0..(Events(x) - 1)
        PROVE  /\ k \in 0..(Events(x)' - 1)
               /\ tenants'.order[<<x, k>>] = tenants.order[<<x, k>>]
               /\ k # 0 => tenants'.order[<<x, k - 1>>] = tenants.order[<<x, k - 1>>]
    <3>1. <<x, k>> \in DOMAIN tenants.order BY TenantPositions
    <3>2. k # 0 => <<x, k - 1>> \in DOMAIN tenants.order
      <4>1. k # 0 => k - 1 \in 0..(Events(x) - 1) BY <1>1
      <4>. QED BY <4>1, TenantPositions
    <3>. QED BY <1>1, <1>2, <1>3, <3>1, <3>2
  <2>. SUFFICES ASSUME NEW k \in DOMAIN tenants'.data
       PROVE  /\ k = <<k[1], k[2]>> /\ k[1] \in DOMAIN tenants'.config
              /\ tenants'.data[k].event_id = k[2]
              /\ tenants'.data[k].event_type = k[2][3]
              /\ tenants'.data[k].index \in 0..(Events(k[1])' - 1)
              /\ tenants'.order[<<k[1], tenants'.data[k].index>>] = k[2]
              /\ tenants'.data[k].prev_hash =
                    IF tenants'.data[k].index = 0 THEN NoTenantEvent
                    ELSE tenants'.order[<<k[1], tenants'.data[k].index - 1>>]
    BY DEF TenantsStored
  <2>2. CASE k = <<t, id>>
    <3>1. k[1] = t /\ k[2] = id /\ tenants'.data[k] = e BY <1>4, <2>2
    <3>2. e.prev_hash = IF n = 0 THEN NoTenantEvent ELSE tenants.order[<<t, n - 1>>]
      BY <1>1 DEF Logging, TenantsLinked
    <3>3. n # 0 => tenants'.order[<<t, n - 1>>] = tenants.order[<<t, n - 1>>]
      <4>1. n # 0 => n - 1 \in 0..(Events(t) - 1) BY <1>1
      <4>. QED BY <1>1, <2>1, <4>1
    <3>4. n \in 0..((n + 1) - 1) BY <1>1
    <3>5. e.index = n /\ e.event_type = id[3] /\ e.event_id = id BY DEF Logging
    <3>. QED BY <1>1, <1>2, <1>3, <2>2, <3>1, <3>2, <3>3, <3>4, <3>5
  <2>3. CASE k # <<t, id>>
    <3>1. k \in DOMAIN tenants.data /\ tenants'.data[k] = tenants.data[k] BY <1>4, <2>3
    <3>2. /\ k = <<k[1], k[2]>> /\ k[1] \in DOMAIN tenants.config
          /\ tenants.data[k].event_id = k[2]
          /\ tenants.data[k].event_type = k[2][3]
          /\ tenants.data[k].index \in 0..(Events(k[1]) - 1)
          /\ tenants.order[<<k[1], tenants.data[k].index>>] = k[2]
          /\ tenants.data[k].prev_hash =
                IF tenants.data[k].index = 0 THEN NoTenantEvent
                ELSE tenants.order[<<k[1], tenants.data[k].index - 1>>]
      BY <3>1 DEF TenantsStored
    <3>. QED BY <1>1, <2>1, <3>1, <3>2
  <2>. QED BY <2>2, <2>3
<1>. QED BY <1>8, <1>9, <1>10, <1>11, <1>12

(* Every call keeps the invariant.                                           *)
LEMMA TenantInvKept ==
    ASSUME TenantInv, TenantNext
    PROVE  TenantInv'
<1>. DEFINE Quiet ==
        /\ DOMAIN tenants' = TenantFields
        /\ DOMAIN tenants'.config = DOMAIN tenants.config
        /\ \A t \in DOMAIN tenants.config :
              /\ DOMAIN tenants'.config[t] = ConfigFields
              /\ tenants'.config[t].total_events = tenants.config[t].total_events
        /\ tenants'.order = tenants.order /\ tenants'.data = tenants.data
        /\ tenants'.indices = tenants.indices /\ tenants'.last = tenants.last
<1>1. /\ DOMAIN tenants = TenantFields
      /\ \A t \in DOMAIN tenants.config : DOMAIN tenants.config[t] = ConfigFields
  BY DEF TenantInv, TenantsCounted
<1>2. Quiet => TenantInv' BY TenantKept
<1>3. ASSUME NEW t \in DOMAIN tenants.config, NEW status, Moves(t, status)
      PROVE  Quiet
  BY <1>1, <1>3 DEF Moves, TenantFields, ConfigFields
<1>4. ASSUME NEW t \in DOMAIN tenants.config, NEW c, NEW a,
             add_tenant_admin(c, t, a) \/ remove_tenant_admin(c, t, a)
      PROVE  Quiet
  BY <1>1, <1>4 DEF add_tenant_admin, remove_tenant_admin, TenantFields
<1>5. ASSUME NEW t \in DOMAIN tenants.config, NEW c, NEW v, NEW r,
             update_tenant_config(c, t, v, v, r)
      PROVE  Quiet
  BY <1>1, <1>5 DEF update_tenant_config, TenantFields, ConfigFields
<1>6. ASSUME NEW t \in DOMAIN tenants.config, NEW c, NEW type, NEW v,
             set_tenant_type_cap(c, t, type, v)
      PROVE  Quiet
  BY <1>1, <1>6 DEF set_tenant_type_cap, TenantFields
<1>7. ASSUME NEW t \in DOMAIN tenants.config, NEW c, NEW type, NEW v,
             log_tenant_event(c, t, type, v)
      PROVE  TenantInv'
  BY <1>7, LoggingWrites, TenantLogged
<1>8. ASSUME NEW c, NEW t, NEW v, NEW r, initialize_tenant(c, t, v, 0, r)
      PROVE  TenantInv'
  BY <1>8, TenantFounded
<1>. HIDE DEF Quiet
<1>. QED
  BY <1>2, <1>3, <1>4, <1>5, <1>6, <1>7, <1>8
  DEF TenantNext, suspend_tenant, resume_tenant, archive_tenant, delete_tenant

(* Tenants are isolated in every behaviour of the platform, whatever the     *)
(* other parts do: the order, the type indexes, the stored events and their  *)
(* links of one tenant name that tenant's events only, and all of them.      *)
THEOREM TenantsStayIsolated == PlatformSpec => []TenantsIsolated
<1>1. PlatformInit => TenantInv
  <2>. SUFFICES ASSUME PlatformInit PROVE TenantInv OBVIOUS
  <2>1. TenantInit BY DEF PlatformInit
  <2>2. /\ DOMAIN tenants = TenantFields
        /\ DOMAIN tenants.config = {} /\ DOMAIN tenants.order = {}
        /\ DOMAIN tenants.data = {} /\ DOMAIN tenants.indices = {}
        /\ DOMAIN tenants.last = {}
    BY <2>1 DEF TenantInit, EmptyMap, TenantFields
  <2>. QED
    BY <2>2 DEF TenantInv, TenantsCounted, TenantsListed, TenantsStored, TenantsIndexed,
                TenantsLinked
<1>2. TenantInv /\ [PlatformNext]_platformVars => TenantInv'
  <2>. SUFFICES ASSUME TenantInv, [PlatformNext]_platformVars PROVE TenantInv' OBVIOUS
  <2>1. CASE TenantNext BY <2>1, TenantInvKept
  <2>2. CASE tenants' = tenants
    <3>1. /\ DOMAIN tenants = TenantFields
          /\ \A t \in DOMAIN tenants.config : DOMAIN tenants.config[t] = ConfigFields
      BY DEF TenantInv, TenantsCounted
    <3>. QED BY <2>2, <3>1, TenantKept
  <2>. QED BY <2>1, <2>2, PartSteps
<1>3. TenantInv => TenantsIsolated BY TenantInvIsolates
<1>. QED BY <1>1, <1>2, <1>3, PTL DEF PlatformSpec
-----------------------------------------------------------------------------
(* Offline money.                                                            *)

CbdcFields == {"offline", "batch", "queue", "flushed"}
OfflineFields == {"hash", "tx", "status", "created_at", "reconciled_at", "nonce"}

(* Handing in, reconciling and failing are the only ways to a status: no     *)
(* transaction is ever disputed.                                             *)
OfflineInv ==
    /\ DOMAIN cbdc = CbdcFields
    /\ IsList(cbdc.offline)
    /\ \A k \in DOMAIN cbdc.offline :
          /\ DOMAIN cbdc.offline[k] = OfflineFields
          /\ cbdc.offline[k].status \in {"Pending", "Reconciled", "Failed"}

(* What a call does to the transactions handed in before it.                 *)
OutcomesKept ==
    \A k \in DOMAIN cbdc.offline :
        cbdc.offline[k].status # "Pending" => cbdc'.offline[k].status = cbdc.offline[k].status

(* A call keeps the invariant and every outcome.                             *)
LEMMA OfflineStep ==
    ASSUME OfflineInv, CbdcNext
    PROVE  OfflineInv' /\ OutcomesKept
<1>. USE DEF OfflineInv
<1>1. CASE \E from \in Account, dest \in {0, 1}, amount, rate \in Amount, nonce \in 1..2 :
             add_transaction(from, from, dest, amount, rate, nonce)
  <2>1. PICK r : /\ DOMAIN r = OfflineFields /\ r.status = "Pending"
                 /\ DOMAIN cbdc' = CbdcFields
                 /\ cbdc'.offline = Append(cbdc.offline, r)
    BY <1>1 DEF add_transaction, create_offline_transaction, OfflineFields, CbdcFields
  <2>2. /\ DOMAIN cbdc.offline = 1..Len(cbdc.offline) /\ Len(cbdc.offline) \in Nat
        /\ IsList(cbdc'.offline)
        /\ DOMAIN cbdc'.offline = 1..(Len(cbdc.offline) + 1)
        /\ cbdc'.offline[Len(cbdc.offline) + 1] = r
        /\ \A k \in 1..Len(cbdc.offline) : cbdc'.offline[k] = cbdc.offline[k]
    BY <2>1, ListFacts
  <2>3. \A k \in 1..(Len(cbdc.offline) + 1) :
           k \in 1..Len(cbdc.offline) \/ k = Len(cbdc.offline) + 1
    <3>1. PICK len \in Nat : len = Len(cbdc.offline) BY <2>2
    <3>2. \A k \in 1..(len + 1) : k \in 1..len \/ k = len + 1 OBVIOUS
    <3>. QED BY <3>1, <3>2
  <2>. QED BY <2>1, <2>2, <2>3 DEF OutcomesKept
<1>2. CASE \/ clear_queue \/ settle_batch
           \/ \E total \in Amount : NewBatch(cbdc.queue, total)
  <2>1. DOMAIN cbdc' = CbdcFields /\ cbdc'.offline = cbdc.offline
    BY <1>2 DEF clear_queue, settle_batch, NewBatch, CbdcFields
  <2>. QED BY <2>1 DEF OutcomesKept
<1>3. ASSUME NEW k \in DOMAIN cbdc.offline, reconcile_transaction(k) \/ fail_reconciliation(k)
      PROVE  OfflineInv' /\ OutcomesKept
  <2>. DEFINE r(v) == [cbdc.offline[k] EXCEPT !.status = v, !.reconciled_at = Some(clock)]
  <2>1. ASSUME NEW v, cbdc' = [cbdc EXCEPT !.offline[k].status = v,
                                           !.offline[k].reconciled_at = Some(clock)]
        PROVE  /\ DOMAIN cbdc' = CbdcFields
               /\ cbdc'.offline = [cbdc.offline EXCEPT ![k] = r(v)]
    BY <2>1 DEF CbdcFields
  <2>2. \A v : DOMAIN r(v) = OfflineFields /\ r(v).status = v
    BY DEF OfflineFields
  <2>3. \A v : IsList([cbdc.offline EXCEPT ![k] = r(v)])
    <3>. HIDE DEF r
    <3>. QED BY ListFacts
  <2>4. \E v : /\ DOMAIN cbdc' = CbdcFields
               /\ cbdc'.offline = [cbdc.offline EXCEPT ![k] = r(v)]
               /\ \/ v = "Reconciled" /\ cbdc.offline[k].status = "Pending"
                  \/ v = "Failed" /\ cbdc.offline[k].status # "Reconciled"
    <3>. HIDE DEF r
    <3>. QED BY <1>3, <2>1 DEF reconcile_transaction, fail_reconciliation
  <2>. HIDE DEF r
  <2>. QED BY <2>2, <2>3, <2>4 DEF OutcomesKept
<1>. QED BY <1>1, <1>2, <1>3 DEF CbdcNext

(* In every behaviour of the platform a failed offline transaction is never  *)
(* reconciled and a reconciled one stays so.                                 *)
THEOREM OfflineOutcomesStayFinal == PlatformSpec => OfflineOutcomesFinal
<1>1. PlatformInit => OfflineInv
  <2>1. ASSUME PlatformInit PROVE cbdc.offline = <<>> /\ DOMAIN cbdc = CbdcFields
    BY <2>1 DEF PlatformInit, CbdcInit, CbdcFields
  <2>2. IsList(<<>>) /\ DOMAIN <<>> = {}
    BY DEF IsList
  <2>. QED BY <2>1, <2>2 DEF OfflineInv
<1>2. OfflineInv /\ [PlatformNext]_platformVars => OfflineInv' /\ [OutcomesKept]_cbdc
  <2>. SUFFICES ASSUME OfflineInv, [PlatformNext]_platformVars
                PROVE  OfflineInv' /\ [OutcomesKept]_cbdc
    OBVIOUS
  <2>1. CASE CbdcNext BY <2>1, OfflineStep
  <2>2. CASE cbdc' = cbdc BY <2>2 DEF OfflineInv
  <2>. QED BY <2>1, <2>2, PartSteps
<1>. QED BY <1>1, <1>2, PTL DEF PlatformSpec, OfflineOutcomesFinal, OutcomesKept
-----------------------------------------------------------------------------
(* The data catalogue.                                                       *)

CatalogFields ==
    {"admin", "assets", "lineage", "quality", "policies", "byRole", "requests"}
RequestFields == {"asset", "requester", "reviewer", "status"}

PoliciesReachable ==
    /\ \A id \in DOMAIN catalog.policies :
          <<catalog.policies[id].asset, catalog.policies[id].role>> \in DOMAIN catalog.byRole
    /\ \A k \in DOMAIN catalog.byRole :
          k = <<catalog.byRole[k].asset, catalog.byRole[k].role>> /\ k[1] \in DOMAIN catalog.assets

RequestsReviewed ==
    /\ IsList(catalog.requests)
    /\ \A n \in DOMAIN catalog.requests :
          /\ DOMAIN catalog.requests[n] = RequestFields
          /\ catalog.requests[n].status = "pending" <=> catalog.requests[n].reviewer = None

CatalogInv ==
    DOMAIN catalog = CatalogFields /\ PoliciesReachable /\ RequestsReviewed

(* Each call of the catalogue either leaves its policies and requests alone  *)
(* or keeps them so.                                                         *)
LEMMA CatalogStep ==
    ASSUME CatalogInv, CatalogNext
    PROVE  CatalogInv'
<1>. USE DEF CatalogInv
<1>. DEFINE SamePolicies == /\ catalog'.policies = catalog.policies
                            /\ catalog'.byRole = catalog.byRole
                            /\ DOMAIN catalog.assets \subseteq DOMAIN catalog'.assets
            SameRequests == catalog'.requests = catalog.requests
            SameFields == DOMAIN catalog' = CatalogFields
<1>1. SamePolicies => PoliciesReachable' BY DEF PoliciesReachable
<1>2. SameRequests => RequestsReviewed' BY DEF RequestsReviewed
<1>3. ASSUME NEW a, initialize_catalog(a)
      PROVE  SameFields /\ SamePolicies /\ SameRequests
  BY <1>3 DEF initialize_catalog, CatalogFields
<1>4. ASSUME NEW id, NEW asset, register_asset(id, asset)
      PROVE  SameFields /\ SamePolicies /\ SameRequests
  BY <1>4 DEF register_asset, CatalogFields, Put
<1>5. ASSUME NEW a, NEW id, NEW c, update_asset(a, id, c)
      PROVE  SameFields /\ SamePolicies /\ SameRequests
  BY <1>5 DEF update_asset, CatalogFields
<1>6. ASSUME NEW id, NEW x, NEW y, record_lineage(id, x, y) \/ record_quality_scorecard(id, x)
      PROVE  SameFields /\ SamePolicies /\ SameRequests
  BY <1>6 DEF record_lineage, record_quality_scorecard, CatalogFields
<1>7. ASSUME NEW a, NEW id, NEW policy, set_access_policy(a, id, policy)
      PROVE  SameFields /\ PoliciesReachable' /\ SameRequests
  <2>1. /\ SameFields /\ SameRequests
        /\ catalog'.assets = catalog.assets
        /\ catalog'.policies = Put(catalog.policies, id, policy)
        /\ catalog'.byRole = Put(catalog.byRole, <<policy.asset, policy.role>>, policy)
        /\ policy.asset \in DOMAIN catalog.assets
    BY <1>7 DEF set_access_policy, OwnsAsset, CatalogFields
  <2>. QED BY <2>1 DEF PoliciesReachable, Put
<1>8. ASSUME NEW a, NEW id, create_stewardship_request(a, id)
      PROVE  SameFields /\ SamePolicies /\ RequestsReviewed'
  <2>1. PICK r : /\ SameFields /\ SamePolicies
                 /\ DOMAIN r = RequestFields /\ r.status = "pending" /\ r.reviewer = None
                 /\ catalog'.requests = Append(catalog.requests, r)
    BY <1>8 DEF create_stewardship_request, CatalogFields, RequestFields
  <2>2. PICK len \in Nat : len = Len(catalog.requests) /\ DOMAIN catalog.requests = 1..len
    BY ListFacts DEF RequestsReviewed
  <2>3. /\ IsList(catalog'.requests) /\ DOMAIN catalog'.requests = 1..(len + 1)
        /\ catalog'.requests[len + 1] = r
        /\ \A k \in 1..len : catalog'.requests[k] = catalog.requests[k]
    BY <2>1, <2>2, ListFacts DEF RequestsReviewed
  <2>4. \A k \in 1..(len + 1) : k \in 1..len \/ k = len + 1 OBVIOUS
  <2>. QED BY <2>1, <2>2, <2>3, <2>4 DEF RequestsReviewed
<1>9. ASSUME NEW a, NEW n \in DOMAIN catalog.requests, NEW b,
             review_stewardship_request(a, n, b)
      PROVE  SameFields /\ SamePolicies /\ RequestsReviewed'
  <2>. DEFINE v == IF b THEN "approved" ELSE "rejected"
              r == [catalog.requests[n] EXCEPT !.status = v, !.reviewer = Some(a)]
  <2>1. /\ SameFields /\ SamePolicies
        /\ catalog'.requests = [catalog.requests EXCEPT ![n] = r]
    BY <1>9 DEF review_stewardship_request, CatalogFields
  <2>2. DOMAIN r = RequestFields /\ r.status # "pending" /\ r.reviewer # None
    BY DEF RequestsReviewed, RequestFields, Some, None
  <2>. HIDE DEF r
  <2>3. IsList([catalog.requests EXCEPT ![n] = r]) BY ListFacts DEF RequestsReviewed
  <2>. QED BY <2>1, <2>2, <2>3 DEF RequestsReviewed
<1>10. SameFields /\ SamePolicies /\ SameRequests => CatalogInv' BY <1>1, <1>2
<1>11. SameFields /\ PoliciesReachable' /\ SameRequests => CatalogInv' BY <1>2
<1>12. SameFields /\ SamePolicies /\ RequestsReviewed' => CatalogInv' BY <1>1
<1>. HIDE DEF SameFields, SamePolicies, SameRequests, CatalogInv
<1>. QED
  BY <1>3, <1>4, <1>5, <1>6, <1>7, <1>8, <1>9, <1>10, <1>11, <1>12 DEF CatalogNext
-----------------------------------------------------------------------------
(* Private analytics.                                                        *)

AnalyticsFields ==
    {"budget", "queries", "rounds", "gradients", "sessions", "commitments", "metrics"}
BudgetFields == {"max_epsilon", "spent_epsilon", "query_count"}
RoundFields == {"min_participants", "participant_count", "status"}
SessionFields == {"threshold", "commitments_count", "status"}

BudgetKept ==
    \A b \in analytics.budget : DOMAIN b = BudgetFields /\ b.spent_epsilon <= b.max_epsilon

(* The gradients of a round; every gradient belongs to a round there is.     *)
GradientsOf(r) == {g \in analytics.gradients : g[1] = r}

RoundsCounted ==
    /\ IsList(analytics.rounds)
    /\ IsFiniteSet(analytics.gradients)
    /\ \A g \in analytics.gradients : g[1] \in DOMAIN analytics.rounds
    /\ \A r \in DOMAIN analytics.rounds :
          /\ DOMAIN analytics.rounds[r] = RoundFields
          /\ analytics.rounds[r].participant_count = Cardinality(GradientsOf(r))
          /\ analytics.rounds[r].status = "aggregated" =>
                analytics.rounds[r].participant_count >= analytics.rounds[r].min_participants

SessionsAtThreshold ==
    \A s \in DOMAIN analytics.sessions :
        /\ DOMAIN analytics.sessions[s] = SessionFields
        /\ analytics.sessions[s].threshold \in Nat
        /\ analytics.sessions[s].commitments_count \in Nat
        /\ analytics.sessions[s].status # "initialized"
              => analytics.sessions[s].commitments_count >= analytics.sessions[s].threshold

AnalyticsInv ==
    /\ DOMAIN analytics = AnalyticsFields
    /\ BudgetKept /\ RoundsCounted /\ SessionsAtThreshold

(* A participant that had not sent a gradient raises the count by one.       *)
LEMMA GradientCounted ==
    ASSUME RoundsCounted, NEW a, NEW r \in DOMAIN analytics.rounds,
           <<r, a>> \notin analytics.gradients,
           submit_fl_gradient(a, r), DOMAIN analytics = AnalyticsFields
    PROVE  RoundsCounted'
<1>. DEFINE old == analytics.rounds[r]
            new == [old EXCEPT !.participant_count = @ + 1]
<1>1. /\ analytics'.gradients = analytics.gradients \cup {<<r, a>>}
      /\ analytics'.rounds = [analytics.rounds EXCEPT ![r] = new]
      /\ old.status = "open"
  BY DEF submit_fl_gradient, AnalyticsFields
<1>2. /\ DOMAIN new = RoundFields /\ new.status = "open"
      /\ new.participant_count = old.participant_count + 1
  BY <1>1 DEF RoundsCounted, RoundFields
<1>3. IsFiniteSet(analytics'.gradients) BY <1>1, FS_AddElement DEF RoundsCounted
<1>. HIDE DEF new
<1>4. IsList(analytics'.rounds)
  <2>1. IsList([analytics.rounds EXCEPT ![r] = new]) BY ListFacts DEF RoundsCounted
  <2>. QED BY <1>1, <2>1
<1>5. \A x \in DOMAIN analytics.rounds : x # r => GradientsOf(x)' = GradientsOf(x)
  BY <1>1 DEF GradientsOf
<1>6. Cardinality(GradientsOf(r)') = Cardinality(GradientsOf(r)) + 1
  <2>1. GradientsOf(r)' = GradientsOf(r) \cup {<<r, a>>} BY <1>1 DEF GradientsOf
  <2>2. <<r, a>> \notin GradientsOf(r) BY DEF GradientsOf
  <2>3. IsFiniteSet(GradientsOf(r)) BY FS_Subset DEF GradientsOf, RoundsCounted
  <2>. QED BY <2>1, <2>2, <2>3, FS_AddElement
<1>7. \A g \in analytics'.gradients : g[1] \in DOMAIN analytics'.rounds
  BY <1>1 DEF RoundsCounted
<1>8. ASSUME NEW x \in DOMAIN analytics'.rounds
      PROVE  /\ DOMAIN analytics'.rounds[x] = RoundFields
             /\ analytics'.rounds[x].participant_count = Cardinality(GradientsOf(x)')
             /\ analytics'.rounds[x].status = "aggregated" =>
                   analytics'.rounds[x].participant_count
                      >= analytics'.rounds[x].min_participants
  <2>1. CASE x = r BY <1>1, <1>2, <1>6, <2>1 DEF RoundsCounted
  <2>2. CASE x # r BY <1>1, <1>5, <2>2 DEF RoundsCounted
  <2>. QED BY <2>1, <2>2
<1>. QED BY <1>3, <1>4, <1>7, <1>8 DEF RoundsCounted

(* Each call of the analytics keeps budget, rounds and sessions so.          *)
LEMMA AnalyticsStep ==
    ASSUME AnalyticsInv, AnalyticsNext
    PROVE  AnalyticsInv'
<1>. USE DEF AnalyticsInv
<1>. DEFINE SameFields == DOMAIN analytics' = AnalyticsFields
            SameBudget == analytics'.budget = analytics.budget
            SameRounds == /\ analytics'.rounds = analytics.rounds
                          /\ analytics'.gradients = analytics.gradients
            SameSessions == analytics'.sessions = analytics.sessions
<1>1. SameBudget => BudgetKept' BY DEF BudgetKept
<1>2. SameRounds => RoundsCounted' BY DEF RoundsCounted, GradientsOf
<1>3. SameSessions => SessionsAtThreshold' BY DEF SessionsAtThreshold
<1>4. ASSUME NEW v \in Amount, initialize_analytics(v)
      PROVE  SameFields /\ BudgetKept' /\ SameRounds /\ SameSessions
  <2>1. v \in Nat BY PlatformAssumption
  <2>. QED BY <1>4, <2>1 DEF initialize_analytics, AnalyticsFields, BudgetKept, BudgetFields, Some
<1>5. ASSUME NEW q, NEW v, NEW w, execute_dp_query(q, v, w)
      PROVE  SameFields /\ BudgetKept' /\ SameRounds /\ SameSessions
  <2>1. PICK b \in analytics.budget :
          /\ b.spent_epsilon + w <= b.max_epsilon
          /\ SameFields /\ SameRounds /\ SameSessions
          /\ analytics'.budget = {[b EXCEPT !.spent_epsilon = @ + w, !.query_count = @ + 1]}
    BY <1>5 DEF execute_dp_query, AnalyticsFields, Some
  <2>. QED BY <2>1 DEF BudgetKept, BudgetFields
<1>6. ASSUME NEW v, start_fl_round(v)
      PROVE  SameFields /\ SameBudget /\ RoundsCounted' /\ SameSessions
  <2>1. PICK r : /\ SameFields /\ SameBudget /\ SameSessions
                 /\ DOMAIN r = RoundFields /\ r.participant_count = 0 /\ r.status = "open"
                 /\ analytics'.rounds = Append(analytics.rounds, r)
                 /\ analytics'.gradients = analytics.gradients
    BY <1>6 DEF start_fl_round, AnalyticsFields, RoundFields
  <2>2. PICK len \in Nat : len = Len(analytics.rounds) /\ DOMAIN analytics.rounds = 1..len
    BY ListFacts DEF RoundsCounted
  <2>3. /\ IsList(analytics'.rounds) /\ DOMAIN analytics'.rounds = 1..(len + 1)
        /\ analytics'.rounds[len + 1] = r
        /\ \A k \in 1..len : analytics'.rounds[k] = analytics.rounds[k]
    BY <2>1, <2>2, ListFacts DEF RoundsCounted
  <2>4. \A k \in 1..(len + 1) : k \in 1..len \/ k = len + 1 OBVIOUS
  <2>5. len + 1 \notin 1..len /\ 1..len \subseteq 1..(len + 1) OBVIOUS
  <2>6. \A x : GradientsOf(x)' = GradientsOf(x) BY <2>1 DEF GradientsOf
  <2>7. Cardinality(GradientsOf(len + 1)) = 0
    <3>1. GradientsOf(len + 1) = {} BY <2>2, <2>5 DEF GradientsOf, RoundsCounted
    <3>. QED BY <3>1, FS_EmptySet
  <2>8. ASSUME NEW x \in DOMAIN analytics'.rounds
        PROVE  /\ DOMAIN analytics'.rounds[x] = RoundFields
               /\ analytics'.rounds[x].participant_count = Cardinality(GradientsOf(x))
               /\ analytics'.rounds[x].status = "aggregated" =>
                     analytics'.rounds[x].participant_count
                        >= analytics'.rounds[x].min_participants
    <3>1. CASE x = len + 1 BY <2>1, <2>3, <2>7, <3>1
    <3>2. CASE x \in 1..len BY <2>2, <2>3, <3>2 DEF RoundsCounted
    <3>. QED BY <2>3, <2>4, <3>1, <3>2
  <2>. QED BY <2>1, <2>2, <2>3, <2>5, <2>6, <2>8 DEF RoundsCounted
<1>7. ASSUME NEW a, NEW r \in DOMAIN analytics.rounds, submit_fl_gradient(a, r)
      PROVE  SameFields /\ SameBudget /\ RoundsCounted' /\ SameSessions
  <2>1. SameFields /\ SameBudget /\ SameSessions /\ <<r, a>> \notin analytics.gradients
    BY <1>7 DEF submit_fl_gradient, AnalyticsFields
  <2>. QED BY <1>7, <2>1, GradientCounted
<1>8. ASSUME NEW r \in DOMAIN analytics.rounds, aggregate_fl_round(r)
      PROVE  SameFields /\ SameBudget /\ RoundsCounted' /\ SameSessions
  <2>. DEFINE new == [analytics.rounds[r] EXCEPT !.status = "aggregated"]
  <2>1. /\ SameFields /\ SameBudget /\ SameSessions
        /\ analytics'.rounds = [analytics.rounds EXCEPT ![r] = new]
        /\ analytics'.gradients = analytics.gradients
    BY <1>8 DEF aggregate_fl_round, AnalyticsFields
  <2>2. /\ DOMAIN new = RoundFields
        /\ new.participant_count = analytics.rounds[r].participant_count
        /\ new.participant_count >= new.min_participants
    BY <1>8 DEF aggregate_fl_round, RoundsCounted, RoundFields
  <2>. HIDE DEF new
  <2>3. IsList(analytics'.rounds)
    <3>1. IsList([analytics.rounds EXCEPT ![r] = new]) BY ListFacts DEF RoundsCounted
    <3>. QED BY <2>1, <3>1
  <2>4. \A x : GradientsOf(x)' = GradientsOf(x) BY <2>1 DEF GradientsOf
  <2>. QED BY <2>1, <2>2, <2>3, <2>4 DEF RoundsCounted
<1>9. ASSUME NEW s, NEW v \in Amount, create_smpc_session(s, v)
      PROVE  SameFields /\ SameBudget /\ SameRounds /\ SessionsAtThreshold'
  <2>1. v \in Nat BY PlatformAssumption
  <2>2. PICK f : /\ SameFields /\ SameBudget /\ SameRounds
                 /\ DOMAIN f = SessionFields /\ f.threshold = v
                 /\ f.commitments_count = 0 /\ f.status = "initialized"
                 /\ analytics'.sessions = Put(analytics.sessions, s, f)
    BY <1>9 DEF create_smpc_session, AnalyticsFields, SessionFields
  <2>. QED BY <2>1, <2>2 DEF SessionsAtThreshold, Put
<1>10. ASSUME NEW a, NEW s \in DOMAIN analytics.sessions, submit_smpc_commitment(a, s)
       PROVE  SameFields /\ SameBudget /\ SameRounds /\ SessionsAtThreshold'
  <2>. DEFINE old == analytics.sessions[s]
              count == old.commitments_count + 1
              status == IF count >= old.threshold THEN "active" ELSE old.status
              new == [old EXCEPT !.commitments_count = count, !.status = status]
  <2>1. /\ SameFields /\ SameBudget /\ SameRounds
        /\ analytics'.sessions = [analytics.sessions EXCEPT ![s] = new]
    BY <1>10 DEF submit_smpc_commitment, AnalyticsFields, SessionsAtThreshold, SessionFields
  <2>2. /\ DOMAIN new = SessionFields /\ new.threshold = old.threshold
        /\ new.commitments_count = count /\ new.status = status
    BY DEF SessionsAtThreshold, SessionFields
  <2>3. /\ old.threshold \in Nat /\ count \in Nat
        /\ status # "initialized" => count >= old.threshold
    BY DEF SessionsAtThreshold
  <2>. HIDE DEF new, count, status, old
  <2>. QED BY <2>1, <2>2, <2>3 DEF SessionsAtThreshold
<1>11. ASSUME NEW s \in DOMAIN analytics.sessions, finalize_smpc_session(s)
       PROVE  SameFields /\ SameBudget /\ SameRounds /\ SessionsAtThreshold'
  <2>. DEFINE new == [analytics.sessions[s] EXCEPT !.status = "completed"]
  <2>1. /\ SameFields /\ SameBudget /\ SameRounds
        /\ analytics'.sessions = [analytics.sessions EXCEPT ![s] = new]
    BY <1>11 DEF finalize_smpc_session, AnalyticsFields
  <2>2. /\ DOMAIN new = SessionFields /\ new.threshold \in Nat /\ new.commitments_count \in Nat
        /\ new.commitments_count >= new.threshold
    BY <1>11 DEF finalize_smpc_session, SessionsAtThreshold, SessionFields
  <2>. HIDE DEF new
  <2>. QED BY <2>1, <2>2 DEF SessionsAtThreshold
<1>12. ASSUME NEW a, NEW id, record_homomorphic_metric(a, id)
       PROVE  SameFields /\ SameBudget /\ SameRounds /\ SameSessions
  BY <1>12 DEF record_homomorphic_metric, AnalyticsFields
<1>13. SameFields /\ BudgetKept' /\ SameRounds /\ SameSessions => AnalyticsInv'
  BY <1>2, <1>3
<1>14. SameFields /\ SameBudget /\ RoundsCounted' /\ SameSessions => AnalyticsInv'
  BY <1>1, <1>3
<1>15. SameFields /\ SameBudget /\ SameRounds /\ SessionsAtThreshold' => AnalyticsInv'
  BY <1>1, <1>2
<1>16. SameFields /\ SameBudget /\ SameRounds /\ SameSessions => AnalyticsInv'
  BY <1>1, <1>2, <1>3
<1>. HIDE DEF SameFields, SameBudget, SameRounds, SameSessions, AnalyticsInv
<1>. QED
  BY <1>4, <1>5, <1>6, <1>7, <1>8, <1>9, <1>10, <1>11, <1>12, <1>13, <1>14, <1>15, <1>16
  DEF AnalyticsNext
-----------------------------------------------------------------------------
(* Breaches.                                                                 *)

BreachFields == {"owner", "workflows", "ids", "pets", "tees", "policies"}
WorkflowFields ==
    {"reporter", "detected_at", "deadline", "severity", "authority_notified_at",
     "subjects_notified_at", "status"}

(* A workflow and the notices it has had, as far as the clock has come.      *)
NoticeGiven(w) ==
    /\ DOMAIN w = WorkflowFields
    /\ w.detected_at \in Nat /\ w.detected_at <= clock
    /\ w.status = "AuthorityNotified" => w.authority_notified_at >= w.detected_at
    /\ w.status = "SubjectsNotified" => w.subjects_notified_at >= w.detected_at

BreachesNumbered ==
    /\ Len(breaches.ids) \in Nat
    /\ breaches.ids = [n \in 1..Len(breaches.ids) |-> n]
    /\ DOMAIN breaches.workflows = 1..Len(breaches.ids)

BreachInv ==
    /\ DOMAIN breaches = BreachFields
    /\ clock \in Nat
    /\ BreachesNumbered
    /\ \A id \in DOMAIN breaches.workflows : NoticeGiven(breaches.workflows[id])

(* Saving under the next number or under one there is.                       *)
LEMMA BreachSaved ==
    ASSUME BreachInv, NEW id \in 1..(Len(breaches.ids) + 1), NEW w, NoticeGiven(w),
           save_breach(id, w)
    PROVE  /\ DOMAIN breaches' = BreachFields
           /\ BreachesNumbered'
           /\ \A k \in DOMAIN breaches'.workflows : NoticeGiven(breaches'.workflows[k])
<1>. DEFINE ids == breaches.ids
<1>1. PICK len \in Nat : len = Len(ids) BY DEF BreachInv, BreachesNumbered
<1>2. ids = [n \in 1..len |-> n] /\ ids \in Seq(Nat)
  <2>1. ids = [n \in 1..len |-> n] BY <1>1 DEF BreachInv, BreachesNumbered
  <2>2. [n \in 1..len |-> n] \in [1..len -> Nat] OBVIOUS
  <2>3. [n \in 1..len |-> n] \in Seq(Nat) BY <2>2, RuleIsList
  <2>. QED BY <2>1, <2>3
<1>3. /\ DOMAIN breaches' = BreachFields
      /\ breaches'.workflows = Put(breaches.workflows, id, w)
      /\ breaches'.ids = IF Contains(ids, id) THEN ids ELSE Append(ids, id)
  BY DEF save_breach, BreachInv, BreachFields
<1>4. /\ DOMAIN breaches'.workflows = DOMAIN breaches.workflows \cup {id}
      /\ \A k \in DOMAIN breaches'.workflows : NoticeGiven(breaches'.workflows[k])
  BY <1>3 DEF Put, BreachInv
<1>5. DOMAIN breaches.workflows = 1..len BY <1>1 DEF BreachInv, BreachesNumbered
<1>6. CASE id \in 1..len
  <2>1. Contains(ids, id) BY <1>1, <1>2, <1>6 DEF Contains
  <2>2. breaches'.ids = ids BY <1>3, <2>1
  <2>3. DOMAIN breaches'.workflows = 1..len BY <1>4, <1>5, <1>6
  <2>4. BreachesNumbered' BY <1>1, <1>2, <2>2, <2>3 DEF BreachesNumbered
  <2>. QED BY <1>3, <1>4, <2>4
<1>7. CASE id = len + 1
  <2>1. ~Contains(ids, id)
    <3>1. \A i \in 1..len : ids[i] = i /\ i # len + 1 BY <1>2
    <3>. QED BY <1>1, <1>7, <3>1 DEF Contains
  <2>2. breaches'.ids = Append(ids, id) BY <1>3, <2>1
  <2>3. Append(ids, len + 1) = [n \in 1..(len + 1) |-> n]
    <3>1. /\ Append(ids, len + 1) \in Seq(Nat)
          /\ DOMAIN Append(ids, len + 1) = 1..(len + 1)
          /\ \A i \in 1..len : Append(ids, len + 1)[i] = ids[i]
          /\ Append(ids, len + 1)[len + 1] = len + 1
      BY <1>1, <1>2
    <3>2. \A i \in 1..(len + 1) : Append(ids, len + 1)[i] = i BY <1>2, <3>1
    <3>3. Append(ids, len + 1) = [i \in 1..(len + 1) |-> Append(ids, len + 1)[i]] BY <3>1
    <3>. QED BY <3>2, <3>3
  <2>4. Len(Append(ids, len + 1)) = len + 1 BY <1>1, <1>2
  <2>5. DOMAIN breaches'.workflows = 1..(len + 1) BY <1>4, <1>5, <1>7
  <2>6. BreachesNumbered'
    <3>1. breaches'.ids = [n \in 1..(len + 1) |-> n] BY <1>7, <2>2, <2>3
    <3>2. Len(breaches'.ids) = len + 1 BY <1>7, <2>2, <2>4
    <3>3. len + 1 \in Nat OBVIOUS
    <3>. QED BY <2>5, <3>1, <3>2, <3>3 DEF BreachesNumbered
  <2>. QED BY <1>3, <1>4, <2>6
<1>. QED BY <1>1, <1>6, <1>7

(* A breach is saved with the notices it has had; the clock only goes on.    *)
LEMMA BreachStep ==
    ASSUME BreachInv, BreachNext, clock' \in Nat, clock <= clock'
    PROVE  BreachInv'
<1>. DEFINE Kept == /\ DOMAIN breaches' = BreachFields
                    /\ BreachesNumbered'
                    /\ \A k \in DOMAIN breaches'.workflows : NoticeGiven(breaches'.workflows[k])
<1>1. Kept => BreachInv'
  <2>. SUFFICES ASSUME Kept PROVE BreachInv' OBVIOUS
  <2>1. ASSUME NEW k \in DOMAIN breaches'.workflows
        PROVE  NoticeGiven(breaches.workflows[k])'
    BY DEF NoticeGiven, BreachInv
  <2>. QED BY <2>1 DEF BreachInv
<1>2. ASSUME NEW a, NEW v, detect_breach(a, v)
      PROVE  Kept
  <2>1. PICK w : save_breach(Len(breaches.ids) + 1, w) /\ NoticeGiven(w)
    BY <1>2 DEF detect_breach, NoticeGiven, WorkflowFields, BreachInv
  <2>2. Len(breaches.ids) + 1 \in 1..(Len(breaches.ids) + 1)
    BY DEF BreachInv, BreachesNumbered
  <2>. QED BY <2>1, <2>2, BreachSaved
<1>3. ASSUME NEW a, NEW id \in DOMAIN breaches.workflows,
             \/ assess_breach(a, id) \/ complete_review(a, id)
             \/ notify_authority(a, id) \/ notify_subjects(a, id)
      PROVE  Kept
  <2>1. NoticeGiven(breaches.workflows[id]) BY DEF BreachInv
  <2>2. PICK w : save_breach(id, w) /\ NoticeGiven(w)
    <3>. DEFINE old == breaches.workflows[id]
                closed(v) == [old EXCEPT !.status = v]
                authority == [old EXCEPT !.authority_notified_at = clock,
                                         !.status = "AuthorityNotified"]
                subjects == [old EXCEPT !.subjects_notified_at = clock,
                                        !.status = "SubjectsNotified"]
    <3>1. NoticeGiven(closed("Assessed")) /\ NoticeGiven(closed("Closed"))
      BY <2>1 DEF NoticeGiven, WorkflowFields
    <3>2. NoticeGiven(authority) BY <2>1 DEF NoticeGiven, WorkflowFields, BreachInv
    <3>3. NoticeGiven(subjects) BY <2>1 DEF NoticeGiven, WorkflowFields, BreachInv
    <3>4. \/ save_breach(id, closed("Assessed")) \/ save_breach(id, closed("Closed"))
          \/ save_breach(id, authority) \/ save_breach(id, subjects)
      BY <1>3 DEF assess_breach, complete_review, notify_authority, notify_subjects
    <3>. HIDE DEF closed, authority, subjects
    <3>. QED BY <3>1, <3>2, <3>3, <3>4
  <2>3. id \in 1..(Len(breaches.ids) + 1) BY DEF BreachInv, BreachesNumbered
  <2>. QED BY <2>2, <2>3, BreachSaved
<1>4. ASSUME NEW a, NEW x, NEW y,
             \/ initialize_privacy(a) \/ register_pet(a)
             \/ record_tee_attestation(a, x) \/ set_disclosure_policy(a, x, a, y)
      PROVE  Kept
  <2>1. /\ DOMAIN breaches' = BreachFields
        /\ breaches'.workflows = breaches.workflows /\ breaches'.ids = breaches.ids
    BY <1>4 DEF initialize_privacy, register_pet, record_tee_attestation,
                set_disclosure_policy, BreachFields, BreachInv
  <2>. QED BY <2>1 DEF BreachInv, BreachesNumbered
<1>. HIDE DEF Kept
<1>. QED BY <1>1, <1>2, <1>3, <1>4 DEF BreachNext

(* What the three parts keep is what is promised of them.                    *)
LEMMA PrivacyInvAccounts ==
    ASSUME CatalogInv, AnalyticsInv, BreachInv
    PROVE  PrivacyAccounted
<1>1. breaches.ids = [n \in 1..Cardinality(DOMAIN breaches.workflows) |-> n]
  <2>1. PICK len \in Nat : len = Len(breaches.ids) BY DEF BreachInv, BreachesNumbered
  <2>2. Cardinality(1..len) = len BY FS_Interval
  <2>. QED BY <2>1, <2>2 DEF BreachInv, BreachesNumbered
<1>2. \A id \in DOMAIN breaches.workflows :
        /\ breaches.workflows[id].status = "AuthorityNotified" =>
              breaches.workflows[id].authority_notified_at >= breaches.workflows[id].detected_at
        /\ breaches.workflows[id].status = "SubjectsNotified" =>
              breaches.workflows[id].subjects_notified_at >= breaches.workflows[id].detected_at
  BY DEF BreachInv, NoticeGiven
<1>3. \A r \in DOMAIN analytics.rounds :
        /\ analytics.rounds[r].participant_count
              = Cardinality({g \in analytics.gradients : g[1] = r})
        /\ analytics.rounds[r].status = "aggregated" =>
              analytics.rounds[r].participant_count >= analytics.rounds[r].min_participants
  BY DEF AnalyticsInv, RoundsCounted, GradientsOf
<1>4. /\ \A b \in analytics.budget : b.spent_epsilon <= b.max_epsilon
      /\ \A s \in DOMAIN analytics.sessions :
            analytics.sessions[s].status # "initialized"
               => analytics.sessions[s].commitments_count >= analytics.sessions[s].threshold
  BY DEF AnalyticsInv, BudgetKept, SessionsAtThreshold
<1>. QED
  BY <1>1, <1>2, <1>3, <1>4
  DEF PrivacyAccounted, CatalogInv, PoliciesReachable, RequestsReviewed

(* In every behaviour of the platform privacy is accounted for: no budget is *)
(* overspent, no participant counted twice, nothing finished below its       *)
(* threshold, no access granted by another's policy, no breach misnumbered   *)
(* or said to be notified when it was not.                                   *)
THEOREM PrivacyStaysAccounted == PlatformSpec => []PrivacyAccounted
<1>. DEFINE Inv == CatalogInv /\ AnalyticsInv /\ BreachInv
<1>1. PlatformInit => Inv
  <2>. SUFFICES ASSUME PlatformInit PROVE Inv OBVIOUS
  <2>1. IsList(<<>>) /\ DOMAIN <<>> = {} /\ Len(<<>>) = 0 /\ 1..0 = {}
    BY DEF IsList
  <2>2. CatalogInv
    BY <2>1 DEF PlatformInit, CatalogInit, CatalogInv, CatalogFields, PoliciesReachable,
                RequestsReviewed, EmptyMap
  <2>3. AnalyticsInv
    BY <2>1, FS_EmptySet
    DEF PlatformInit, AnalyticsInit, AnalyticsInv, AnalyticsFields, BudgetKept,
        RoundsCounted, SessionsAtThreshold, EmptyMap, None
  <2>4. BreachInv
    <3>1. <<>> = [n \in 1..0 |-> n] BY <2>1
    <3>. QED
      BY <2>1, <3>1
      DEF PlatformInit, BreachInit, BreachInv, BreachFields, BreachesNumbered, EmptyMap
  <2>. QED BY <2>2, <2>3, <2>4
<1>2. Inv /\ [PlatformNext]_platformVars => Inv'
  <2>. SUFFICES ASSUME Inv, [PlatformNext]_platformVars PROVE Inv' OBVIOUS
  <2>1. clock' \in Nat /\ clock <= clock' BY PartSteps DEF BreachInv
  <2>2. CatalogInv'
    <3>1. CASE catalog' = catalog
      BY <3>1 DEF CatalogInv, PoliciesReachable, RequestsReviewed
    <3>. QED BY <3>1, PartSteps, CatalogStep
  <2>3. AnalyticsInv'
    <3>1. CASE analytics' = analytics
      BY <3>1 DEF AnalyticsInv, BudgetKept, RoundsCounted, GradientsOf, SessionsAtThreshold
    <3>. QED BY <3>1, PartSteps, AnalyticsStep
  <2>4. BreachInv'
    <3>1. CASE breaches' = breaches
      <4>1. \A id \in DOMAIN breaches.workflows : NoticeGiven(breaches.workflows[id])'
        BY <2>1, <3>1 DEF BreachInv, NoticeGiven
      <4>. QED BY <2>1, <3>1, <4>1 DEF BreachInv, BreachesNumbered
    <3>. QED BY <2>1, <3>1, PartSteps, BreachStep
  <2>. QED BY <2>2, <2>3, <2>4
<1>3. Inv => PrivacyAccounted BY PrivacyInvAccounts
<1>. QED BY <1>1, <1>2, <1>3, PTL DEF PlatformSpec
-----------------------------------------------------------------------------
(* Costs.                                                                    *)

(* A set of numbers has its least.                                           *)
LEMMA MinOfNumbers ==
    ASSUME NEW T \in SUBSET Nat, T # {}
    PROVE  Min(T) \in T
<1>1. \E x \in T : \A y \in T : ~(<<y, x>> \in OpToRel(<, Nat))
  BY WFMin, NatLessThanWellFounded
<1>2. PICK x \in T : \A y \in T : ~(<<y, x>> \in OpToRel(<, Nat)) BY <1>1
<1>3. \A y \in T : ~(y < x) BY <1>2 DEF OpToRel
<1>4. \A y \in T : x <= y BY <1>3
<1>. QED BY <1>4 DEF Min

FinOpsFields == {"books", "count", "byCenter"}
Attributed == {"allocation", "chargeback", "showback", "budget"}

BooksShaped ==
    DOMAIN finops = FinOpsFields /\ DOMAIN finops.books = Book /\ DOMAIN finops.count = Book

BooksCounted ==
    \A b \in Book :
        /\ finops.count[b] \in Nat
        /\ IsFiniteSet(DOMAIN finops.books[b])
        /\ finops.count[b] >= Cardinality(DOMAIN finops.books[b])

CentersExist ==
    \A b \in Attributed : \A id \in DOMAIN finops.books[b] :
        /\ "center" \in DOMAIN finops.books[b][id]
        /\ finops.books[b][id].center \in DOMAIN finops.books["center"]

(* An allocation's id digests its centre, so replacing it moves it nowhere.  *)
AllocationsListed ==
    /\ \A id \in DOMAIN finops.books["allocation"] :
          id[1] = finops.books["allocation"][id].center
    /\ \A c \in DOMAIN finops.byCenter :
          /\ IsList(finops.byCenter[c])
          /\ \A k \in DOMAIN finops.byCenter[c] :
                /\ finops.byCenter[c][k] \in DOMAIN finops.books["allocation"]
                /\ finops.books["allocation"][finops.byCenter[c][k]].center = c

AlertsReached ==
    /\ \A id \in DOMAIN finops.books["budget"] : IsList(finops.books["budget"][id].thresholds)
    /\ \A id \in DOMAIN finops.books["alert"] :
          finops.books["alert"][id].used >= finops.books["alert"][id].threshold

FinOpsInv ==
    BooksShaped /\ BooksCounted /\ CentersExist /\ AllocationsListed /\ AlertsReached

(* A record r is entered under id, or amended.                               *)
Enters(b, id, r) ==
    /\ DOMAIN finops' = FinOpsFields
    /\ finops'.books = [finops.books EXCEPT ![b] = Put(finops.books[b], id, r)]
    /\ finops'.count = [finops.count EXCEPT ![b] = finops.count[b] + 1]

Amends(b, id, r) ==
    /\ DOMAIN finops' = FinOpsFields
    /\ finops'.books = [finops.books EXCEPT ![b] = [finops.books[b] EXCEPT ![id] = r]]
    /\ finops'.count = finops.count
    /\ finops'.byCenter = finops.byCenter

(* Entering a record adds at most one id, and counts one call.               *)
LEMMA EnteredIsCounted ==
    ASSUME FinOpsInv, NEW b \in Book, NEW id, NEW r, Enters(b, id, r)
    PROVE  /\ BooksShaped' /\ BooksCounted'
           /\ DOMAIN finops'.books[b] = DOMAIN finops.books[b] \cup {id}
           /\ finops'.books[b][id] = r
           /\ \A x \in DOMAIN finops.books[b] : x # id =>
                 finops'.books[b][x] = finops.books[b][x]
           /\ \A x \in Book : x # b => finops'.books[x] = finops.books[x]
           /\ DOMAIN finops.books["center"] \subseteq DOMAIN finops'.books["center"]
<1>. USE DEF FinOpsInv
<1>1. DOMAIN finops.books = Book /\ DOMAIN finops.count = Book BY DEF BooksShaped
<1>2. BooksShaped' BY <1>1 DEF Enters, BooksShaped
<1>3. /\ finops'.books[b] = Put(finops.books[b], id, r)
      /\ \A x \in Book : x # b => finops'.books[x] = finops.books[x]
      /\ finops'.count[b] = finops.count[b] + 1
      /\ \A x \in Book : x # b => finops'.count[x] = finops.count[x]
  BY <1>1 DEF Enters
<1>4. /\ DOMAIN finops'.books[b] = DOMAIN finops.books[b] \cup {id}
      /\ finops'.books[b][id] = r
      /\ \A x \in DOMAIN finops.books[b] : x # id => finops'.books[b][x] = finops.books[b][x]
  BY <1>3 DEF Put
<1>5. BooksCounted'
  <2>1. /\ finops.count[b] \in Nat /\ IsFiniteSet(DOMAIN finops.books[b])
        /\ finops.count[b] >= Cardinality(DOMAIN finops.books[b])
    BY DEF BooksCounted
  <2>2. Cardinality(DOMAIN finops.books[b]) \in Nat BY <2>1, FS_CardinalityType
  <2>3. /\ IsFiniteSet(DOMAIN finops'.books[b])
        /\ \/ Cardinality(DOMAIN finops'.books[b]) = Cardinality(DOMAIN finops.books[b])
           \/ Cardinality(DOMAIN finops'.books[b]) = Cardinality(DOMAIN finops.books[b]) + 1
    BY <1>4, <2>1, FS_AddElement
  <2>4. finops'.count[b] \in Nat /\ finops'.count[b] >= Cardinality(DOMAIN finops'.books[b])
    BY <1>3, <2>1, <2>2, <2>3
  <2>5. ASSUME NEW x \in Book, x # b
        PROVE  /\ finops'.count[x] \in Nat
               /\ IsFiniteSet(DOMAIN finops'.books[x])
               /\ finops'.count[x] >= Cardinality(DOMAIN finops'.books[x])
    BY <1>3, <2>5 DEF BooksCounted
  <2>. QED BY <2>3, <2>4, <2>5 DEF BooksCounted
<1>6. DOMAIN finops.books["center"] \subseteq DOMAIN finops'.books["center"]
  BY <1>3, <1>4 DEF Book
<1>. QED BY <1>2, <1>3, <1>4, <1>5, <1>6

(* A record that names a registered centre, where it names one, may be       *)
(* entered.                                                                  *)
LEMMA EnterStep ==
    ASSUME FinOpsInv, NEW b \in Book, NEW id, NEW r, Enters(b, id, r),
           finops'.byCenter = finops.byCenter,
           b # "allocation",
           b \in Attributed => /\ "center" \in DOMAIN r
                               /\ r.center \in DOMAIN finops.books["center"],
           b = "budget" => IsList(r.thresholds),
           b = "alert" => r.used >= r.threshold
    PROVE  FinOpsInv'
<1>. USE DEF FinOpsInv
<1>1. /\ BooksShaped' /\ BooksCounted'
      /\ DOMAIN finops'.books[b] = DOMAIN finops.books[b] \cup {id}
      /\ finops'.books[b][id] = r
      /\ \A x \in DOMAIN finops.books[b] : x # id => finops'.books[b][x] = finops.books[b][x]
      /\ \A x \in Book : x # b => finops'.books[x] = finops.books[x]
      /\ DOMAIN finops.books["center"] \subseteq DOMAIN finops'.books["center"]
  BY EnteredIsCounted
<1>2. CentersExist'
  <2>. SUFFICES ASSUME NEW x \in Attributed, NEW y \in DOMAIN finops'.books[x]
                PROVE  /\ "center" \in DOMAIN finops'.books[x][y]
                       /\ finops'.books[x][y].center \in DOMAIN finops'.books["center"]
    BY DEF CentersExist
  <2>1. CASE x = b /\ y = id BY <1>1, <2>1
  <2>2. CASE x = b /\ y # id BY <1>1, <2>2 DEF CentersExist
  <2>3. CASE x # b
    <3>1. x \in Book BY DEF Attributed, Book
    <3>. QED BY <1>1, <2>3, <3>1 DEF CentersExist
  <2>. QED BY <2>1, <2>2, <2>3
<1>3. AllocationsListed'
  <2>1. finops'.books["allocation"] = finops.books["allocation"] BY <1>1 DEF Book
  <2>. QED BY <2>1 DEF AllocationsListed
<1>4. AlertsReached'
  <2>1. "budget" \in Book /\ "alert" \in Book BY DEF Book
  <2>. QED BY <1>1, <2>1 DEF AlertsReached
<1>. QED BY <1>1, <1>2, <1>3, <1>4

(* An allocation is entered and listed under the centre it names.            *)
LEMMA AllocateStep ==
    ASSUME FinOpsInv, NEW c, NEW v, allocate_cost(c, v)
    PROVE  FinOpsInv'
<1>. USE DEF FinOpsInv
<1>. DEFINE id == compute_id(c)
            r == [center |-> c, amount |-> v]
<1>1. /\ Enters("allocation", id, r)
      /\ finops'.byCenter = PushTo(finops.byCenter, c, id)
      /\ c \in DOMAIN finops.books["center"]
  BY DEF allocate_cost, Entered, Enters, BooksShaped, FinOpsFields, Book
<1>2. id[1] = c BY DEF compute_id
<1>3. r.center = c /\ "center" \in DOMAIN r OBVIOUS
<1>. HIDE DEF id, r
<1>5. "allocation" \in Book /\ "budget" \in Book /\ "alert" \in Book /\ "center" \in Book
  BY DEF Book
<1>6. /\ BooksShaped' /\ BooksCounted'
      /\ DOMAIN finops'.books["allocation"] = DOMAIN finops.books["allocation"] \cup {id}
      /\ finops'.books["allocation"][id] = r
      /\ \A x \in DOMAIN finops.books["allocation"] : x # id =>
            finops'.books["allocation"][x] = finops.books["allocation"][x]
      /\ \A x \in Book : x # "allocation" => finops'.books[x] = finops.books[x]
  BY <1>1, <1>5, EnteredIsCounted
<1>7. CentersExist'
  <2>. SUFFICES ASSUME NEW x \in Attributed, NEW y \in DOMAIN finops'.books[x]
                PROVE  /\ "center" \in DOMAIN finops'.books[x][y]
                       /\ finops'.books[x][y].center \in DOMAIN finops'.books["center"]
    BY DEF CentersExist
  <2>1. finops'.books["center"] = finops.books["center"] BY <1>5, <1>6
  <2>2. CASE x = "allocation" /\ y = id BY <1>1, <1>3, <1>6, <2>1, <2>2
  <2>3. CASE x = "allocation" /\ y # id BY <1>6, <2>1, <2>3 DEF CentersExist
  <2>4. CASE x # "allocation"
    <3>1. x \in Book BY DEF Attributed, Book
    <3>. QED BY <1>6, <2>1, <2>4, <3>1 DEF CentersExist
  <2>. QED BY <2>2, <2>3, <2>4
<1>8. AllocationsListed'
  <2>1. \A x \in DOMAIN finops'.books["allocation"] :
           x[1] = finops'.books["allocation"][x].center
    BY <1>2, <1>3, <1>6 DEF AllocationsListed
  <2>2. ASSUME NEW x \in DOMAIN finops.books["allocation"]
        PROVE  /\ x \in DOMAIN finops'.books["allocation"]
               /\ finops'.books["allocation"][x].center = finops.books["allocation"][x].center
    <3>1. CASE x = id
      BY <1>2, <1>3, <1>6, <3>1 DEF AllocationsListed
    <3>2. CASE x # id BY <1>6, <3>2
    <3>. QED BY <3>1, <3>2
  <2>3. /\ DOMAIN finops'.byCenter = DOMAIN finops.byCenter \cup {c}
        /\ finops'.byCenter[c] = Append(ListUnder(finops.byCenter, c), id)
        /\ \A x \in DOMAIN finops.byCenter : x # c => finops'.byCenter[x] = finops.byCenter[x]
    BY <1>1 DEF PushTo, Put, ListUnder
  <2>4. PICK list : list = ListUnder(finops.byCenter, c) OBVIOUS
  <2>5. /\ IsList(list)
        /\ \A k \in DOMAIN list :
              /\ list[k] \in DOMAIN finops.books["allocation"]
              /\ finops.books["allocation"][list[k]].center = c
    <3>1. CASE c \in DOMAIN finops.byCenter
      BY <2>4, <3>1 DEF ListUnder, GetOr, AllocationsListed
    <3>2. CASE c \notin DOMAIN finops.byCenter
      <4>1. list = <<>> BY <2>4, <3>2 DEF ListUnder, GetOr
      <4>2. IsList(<<>>) /\ DOMAIN <<>> = {} BY DEF IsList
      <4>. QED BY <4>1, <4>2
    <3>. QED BY <3>1, <3>2
  <2>6. PICK len \in Nat : len = Len(list) /\ DOMAIN list = 1..len BY <2>5, ListFacts
  <2>7. /\ IsList(Append(list, id)) /\ DOMAIN Append(list, id) = 1..(len + 1)
        /\ Append(list, id)[len + 1] = id
        /\ \A k \in 1..len : Append(list, id)[k] = list[k]
    BY <2>5, <2>6, ListFacts
  <2>8. ASSUME NEW k \in 1..(len + 1)
        PROVE  /\ Append(list, id)[k] \in DOMAIN finops'.books["allocation"]
               /\ finops'.books["allocation"][Append(list, id)[k]].center = c
    <3>1. CASE k = len + 1 BY <1>3, <1>6, <2>7, <3>1
    <3>2. CASE k \in 1..len
      <4>1. Append(list, id)[k] = list[k] /\ k \in DOMAIN list BY <2>6, <2>7, <3>2
      <4>. QED BY <2>2, <2>5, <4>1
    <3>3. k \in 1..len \/ k = len + 1 OBVIOUS
    <3>. QED BY <3>1, <3>2, <3>3
  <2>9. ASSUME NEW x \in DOMAIN finops'.byCenter
        PROVE  /\ IsList(finops'.byCenter[x])
               /\ \A k \in DOMAIN finops'.byCenter[x] :
                    /\ finops'.byCenter[x][k] \in DOMAIN finops'.books["allocation"]
                    /\ finops'.books["allocation"][finops'.byCenter[x][k]].center = x
    <3>1. CASE x = c BY <2>3, <2>4, <2>7, <2>8, <3>1
    <3>2. CASE x # c BY <2>2, <2>3, <3>2 DEF AllocationsListed
    <3>. QED BY <3>1, <3>2
  <2>. QED BY <2>1, <2>9 DEF AllocationsListed
<1>9. AlertsReached'
  BY <1>5, <1>6 DEF AlertsReached
<1>. QED BY <1>6, <1>7, <1>8, <1>9

(* An amended record keeps its centre.                                       *)
LEMMA AmendStep ==
    ASSUME FinOpsInv, NEW b \in {"center", "chargeback", "anomaly"},
           NEW id \in DOMAIN finops.books[b], NEW r, Amends(b, id, r),
           b = "chargeback" => /\ "center" \in DOMAIN r
                               /\ r.center = finops.books[b][id].center
    PROVE  FinOpsInv'
<1>. USE DEF FinOpsInv
<1>1. /\ DOMAIN finops.books = Book /\ b \in Book
      /\ "allocation" \in Book /\ "budget" \in Book /\ "alert" \in Book /\ "center" \in Book
  BY DEF BooksShaped, Book
<1>2. /\ \A x \in Book : DOMAIN finops'.books[x] = DOMAIN finops.books[x]
      /\ \A x \in Book : x # b => finops'.books[x] = finops.books[x]
      /\ finops'.books[b][id] = r
      /\ \A y \in DOMAIN finops.books[b] : y # id => finops'.books[b][y] = finops.books[b][y]
      /\ DOMAIN finops'.books = Book
  BY <1>1 DEF Amends
<1>3. BooksShaped' BY <1>1, <1>2 DEF BooksShaped, Amends
<1>4. BooksCounted' BY <1>2 DEF BooksCounted, Amends
<1>5. CentersExist'
  <2>. SUFFICES ASSUME NEW x \in Attributed, NEW y \in DOMAIN finops'.books[x]
                PROVE  /\ "center" \in DOMAIN finops'.books[x][y]
                       /\ finops'.books[x][y].center \in DOMAIN finops'.books["center"]
    BY DEF CentersExist
  <2>1. x \in Book BY DEF Attributed, Book
  <2>2. /\ "center" \in DOMAIN finops.books[x][y]
        /\ finops.books[x][y].center \in DOMAIN finops.books["center"]
    BY <1>2, <2>1 DEF CentersExist
  <2>3. CASE x = b /\ y = id
    <3>1. b = "chargeback" BY <2>3 DEF Attributed
    <3>. QED BY <1>1, <1>2, <2>2, <2>3, <3>1
  <2>4. CASE ~(x = b /\ y = id)
    <3>1. finops'.books[x][y] = finops.books[x][y] BY <1>2, <2>1, <2>4
    <3>. QED BY <1>1, <1>2, <2>2, <3>1
  <2>. QED BY <2>3, <2>4
<1>6. AllocationsListed' /\ AlertsReached'
  <2>1. /\ finops'.books["allocation"] = finops.books["allocation"]
        /\ finops'.books["budget"] = finops.books["budget"]
        /\ finops'.books["alert"] = finops.books["alert"]
        /\ finops'.byCenter = finops.byCenter
    BY <1>1, <1>2 DEF Amends
  <2>. QED BY <2>1 DEF AllocationsListed, AlertsReached
<1>. QED BY <1>3, <1>4, <1>5, <1>6

(* Every call enters or amends one record, or allocates.                     *)
LEMMA FinOpsStep ==
    ASSUME FinOpsInv, FinOpsNext
    PROVE  FinOpsInv'
<1>. USE DEF FinOpsInv
<1>1. ASSUME NEW b \in Book, NEW subject, NEW r, finops' = Entered(finops, b, subject, r)
      PROVE  Enters(b, compute_id(subject), r) /\ finops'.byCenter = finops.byCenter
  BY <1>1 DEF Entered, Enters, BooksShaped, FinOpsFields
<1>2. /\ "center" \in Book /\ "chargeback" \in Book /\ "showback" \in Book
      /\ "resource" \in Book /\ "rightsizing" \in Book /\ "anomaly" \in Book
      /\ "budget" \in Book /\ "alert" \in Book
  BY DEF Book
<1>3. ASSUME NEW b \in {"center", "resource", "rightsizing", "anomaly"}, NEW subject, NEW r,
             finops' = Entered(finops, b, subject, r)
      PROVE  FinOpsInv'
  <2>1. b \in Book /\ b \notin Attributed BY DEF Book, Attributed
  <2>2. Enters(b, compute_id(subject), r) /\ finops'.byCenter = finops.byCenter
    BY <1>1, <1>3, <2>1
  <2>3. b # "allocation" /\ b # "budget" /\ b # "alert" OBVIOUS
  <2>. HIDE DEF FinOpsInv
  <2>. QED BY <2>1, <2>2, <2>3, EnterStep
<1>4. ASSUME NEW b \in {"chargeback", "showback", "budget"}, NEW subject, NEW r,
             finops' = Entered(finops, b, subject, r),
             "center" \in DOMAIN r, r.center \in DOMAIN finops.books["center"],
             b = "budget" => IsList(r.thresholds)
      PROVE  FinOpsInv'
  <2>1. b \in Book BY DEF Book
  <2>2. Enters(b, compute_id(subject), r) /\ finops'.byCenter = finops.byCenter
    BY <1>1, <1>4, <2>1
  <2>3. b # "allocation" /\ b # "alert" OBVIOUS
  <2>. HIDE DEF FinOpsInv
  <2>. QED BY <1>4, <2>1, <2>2, <2>3, EnterStep
<1>5. ASSUME NEW a, NEW n, NEW v, register_cost_center(a, n, v)
      PROVE  FinOpsInv'
  BY <1>3, <1>5 DEF register_cost_center
<1>6. ASSUME NEW n, NEW v, NEW w, record_resource(n, v, w) \/ record_anomaly(n, v, w)
      PROVE  FinOpsInv'
  BY <1>3, <1>6 DEF record_resource, record_anomaly
<1>7. ASSUME NEW id, generate_rightsizing(id)
      PROVE  FinOpsInv'
  BY <1>3, <1>7 DEF generate_rightsizing
<1>8. ASSUME NEW n, NEW v, NEW c \in DOMAIN finops.books["center"],
             create_chargeback(n, v, c) \/ create_showback(n, v, c)
      PROVE  FinOpsInv'
  <2>1. CASE create_chargeback(n, v, c)
    <3>. DEFINE r == [center |-> c, amount |-> v, approved |-> FALSE]
    <3>1. "center" \in DOMAIN r /\ r.center = c OBVIOUS
    <3>2. finops' = Entered(finops, "chargeback", n, r) BY <2>1 DEF create_chargeback
    <3>. HIDE DEF r, FinOpsInv
    <3>. QED BY <1>4, <3>1, <3>2
  <2>2. CASE create_showback(n, v, c)
    <3>. DEFINE r == [center |-> c, amount |-> v]
    <3>1. "center" \in DOMAIN r /\ r.center = c OBVIOUS
    <3>2. finops' = Entered(finops, "showback", n, r) BY <2>2 DEF create_showback
    <3>. HIDE DEF r, FinOpsInv
    <3>. QED BY <1>4, <3>1, <3>2
  <2>. QED BY <1>8, <2>1, <2>2
<1>9. ASSUME NEW n, NEW v, NEW c \in DOMAIN finops.books["center"],
             create_budget(n, c, v, <<50, 80>>)
      PROVE  FinOpsInv'
  <2>. DEFINE r == [center |-> c, amount |-> v, thresholds |-> <<50, 80>>]
  <2>1. "center" \in DOMAIN r /\ r.center = c /\ r.thresholds = <<50, 80>> OBVIOUS
  <2>2. finops' = Entered(finops, "budget", n, r) BY <1>9 DEF create_budget
  <2>3. IsList(<<50, 80>>)
    <3>1. <<50, 80>>[1] = 50 /\ <<50, 80>>[2] = 80 /\ DOMAIN <<50, 80>> = {1, 2} OBVIOUS
    <3>2. {<<50, 80>>[k] : k \in DOMAIN <<50, 80>>} = {50, 80} BY <3>1
    <3>3. <<50, 80>> \in Seq({50, 80}) OBVIOUS
    <3>. QED BY <3>2, <3>3 DEF IsList
  <2>. HIDE DEF r, FinOpsInv
  <2>. QED BY <1>4, <2>1, <2>2, <2>3
<1>10. ASSUME NEW id \in DOMAIN finops.books["budget"], NEW v, check_budget(id, v)
       PROVE  FinOpsInv'
  <2>. DEFINE t == finops.books["budget"][id].thresholds
              used == (v * 100) \div finops.books["budget"][id].amount
              reached == {k \in DOMAIN t : used >= t[k]}
              r == [budget |-> id, spend |-> v, used |-> used, threshold |-> t[Min(reached)]]
  <2>1. reached # {} /\ finops' = Entered(finops, "alert", id, r)
    BY <1>10 DEF check_budget
  <2>2. IsList(t) BY DEF AlertsReached
  <2>3. Min(reached) \in reached
    <3>1. reached \subseteq Nat BY <2>2, ListFacts
    <3>. HIDE DEF reached
    <3>. QED BY <2>1, <3>1, MinOfNumbers
  <2>4. r.used >= r.threshold BY <2>3
  <2>5. Enters("alert", compute_id(id), r) /\ finops'.byCenter = finops.byCenter
    <3>. HIDE DEF r
    <3>. QED BY <1>1, <1>2, <2>1
  <2>6. "alert" \notin Attributed /\ "alert" # "allocation" /\ "alert" # "budget"
    BY DEF Attributed
  <2>. HIDE DEF r, FinOpsInv
  <2>. QED BY <1>2, <2>4, <2>5, <2>6, EnterStep
<1>11. ASSUME NEW a, NEW c \in DOMAIN finops.books["center"], NEW v,
              update_cost_center_budget(a, c, v) \/ deactivate_cost_center(a, c)
       PROVE  FinOpsInv'
  <2>1. \E r : Amends("center", c, r)
    BY <1>11 DEF update_cost_center_budget, deactivate_cost_center, Amends, BooksShaped,
                 FinOpsFields, Book
  <2>. HIDE DEF FinOpsInv
  <2>. QED BY <2>1, AmendStep
<1>12. ASSUME NEW id \in DOMAIN finops.books["chargeback"], approve_chargeback(id)
       PROVE  FinOpsInv'
  <2>. DEFINE r == [finops.books["chargeback"][id] EXCEPT !.approved = TRUE]
  <2>1. Amends("chargeback", id, r)
    BY <1>12 DEF approve_chargeback, Amends, BooksShaped, FinOpsFields, Book
  <2>2. "center" \in DOMAIN r /\ r.center = finops.books["chargeback"][id].center
    BY DEF CentersExist, Attributed
  <2>. HIDE DEF r, FinOpsInv
  <2>. QED BY <2>1, <2>2, AmendStep
<1>13. ASSUME NEW id \in DOMAIN finops.books["anomaly"], resolve_anomaly(id)
       PROVE  FinOpsInv'
  <2>1. \E r : Amends("anomaly", id, r)
    BY <1>13 DEF resolve_anomaly, Amends, BooksShaped, FinOpsFields, Book
  <2>. HIDE DEF FinOpsInv
  <2>. QED BY <2>1, AmendStep
<1>. HIDE DEF FinOpsInv
<1>14. ASSUME NEW c, NEW v, allocate_cost(c, v) PROVE FinOpsInv' BY <1>14, AllocateStep
<1>. QED
  BY <1>5, <1>6, <1>7, <1>8, <1>9, <1>10, <1>11, <1>12, <1>13, <1>14 DEF FinOpsNext

(* The telemetry ring has a slot for each snapshot until it is full.         *)
RingInv ==
    /\ DOMAIN capacity = {"ring", "count", "tiers", "quotas", "replicas", "policy"}
    /\ capacity.count \in Nat
    /\ DOMAIN capacity.ring = 0..(IF capacity.count <= RingSize THEN capacity.count - 1
                                  ELSE RingSize - 1)

(* A snapshot takes the next slot, or the first one of a full ring.          *)
LEMMA RingStep ==
    ASSUME RingInv, CapacityNext
    PROVE  RingInv'
<1>. DEFINE Same == /\ DOMAIN capacity' = DOMAIN capacity
                    /\ capacity'.ring = capacity.ring /\ capacity'.count = capacity.count
<1>1. Same => RingInv' BY DEF RingInv
<1>2. ASSUME NEW v, record_telemetry(v)
      PROVE  RingInv'
  <2>1. PICK n \in Nat : n = capacity.count BY DEF RingInv
  <2>2. /\ n < RingSize + 1
        /\ DOMAIN capacity' = DOMAIN capacity
        /\ DOMAIN capacity'.ring = DOMAIN capacity.ring \cup {n % RingSize}
        /\ capacity'.count = n + 1
    BY <1>2, <2>1 DEF record_telemetry, RingInv, Put
  <2>3. RingSize \in Nat /\ RingSize > 0 BY RingAssumption
  <2>4. CASE n < RingSize
    <3>1. n % RingSize = n BY <2>3, <2>4
    <3>2. 0..n = 0..(n - 1) \cup {n} OBVIOUS
    <3>3. DOMAIN capacity.ring = 0..(n - 1) BY <2>1, <2>3, <2>4 DEF RingInv
    <3>4. DOMAIN capacity'.ring = 0..n BY <2>2, <3>1, <3>2, <3>3
    <3>5. n + 1 \in Nat /\ n + 1 <= RingSize /\ (n + 1) - 1 = n BY <2>3, <2>4
    <3>. QED BY <2>2, <3>4, <3>5 DEF RingInv
  <2>5. CASE n = RingSize
    <3>1. n % RingSize \in 0..(RingSize - 1) BY <2>3, <2>5
    <3>2. DOMAIN capacity.ring = 0..(RingSize - 1) BY <2>1, <2>3, <2>5 DEF RingInv
    <3>3. DOMAIN capacity'.ring = 0..(RingSize - 1) BY <2>2, <3>1, <3>2
    <3>4. n + 1 \in Nat /\ ~(n + 1 <= RingSize) BY <2>3, <2>5
    <3>. QED BY <2>2, <3>3, <3>4 DEF RingInv
  <2>. QED BY <2>2, <2>3, <2>4, <2>5
<1>3. ASSUME NEW t, NEW v, set_quota_tier(t, v, 0) PROVE Same
  BY <1>3 DEF set_quota_tier, RingInv
<1>4. ASSUME NEW s, NEW t, set_submitter_quota(s, t) PROVE Same
  BY <1>4 DEF set_submitter_quota, RingInv
<1>5. ASSUME NEW s, NEW t, NEW n, consume_quota(s, t, n) PROVE Same
  BY <1>5 DEF consume_quota, RingInv
<1>6. ASSUME NEW v, NEW w, record_recommendation(v, w) \/ update_policy(v, w) PROVE Same
  BY <1>6 DEF record_recommendation, update_policy, RingInv
<1>. HIDE DEF Same
<1>. QED BY <1>1, <1>2, <1>3, <1>4, <1>5, <1>6 DEF CapacityNext

(* In every behaviour of the platform costs are attributed: what is          *)
(* allocated, charged or budgeted belongs to a registered centre, under the  *)
(* centre that lists it, no alert is raised below its threshold, no record   *)
(* goes uncounted and the telemetry ring loses none before it is full.       *)
THEOREM CostsStayAttributed == PlatformSpec => []CostsAttributed
<1>. DEFINE Inv == FinOpsInv /\ RingInv
<1>1. PlatformInit => Inv
  <2>. SUFFICES ASSUME PlatformInit PROVE Inv OBVIOUS
  <2>1. /\ DOMAIN finops = FinOpsFields /\ DOMAIN finops.books = Book
        /\ DOMAIN finops.count = Book
        /\ \A b \in Book : DOMAIN finops.books[b] = {} /\ finops.count[b] = 0
        /\ DOMAIN finops.byCenter = {}
    BY DEF PlatformInit, FinOpsInit, FinOpsFields, EmptyMap
  <2>2. FinOpsInv
    <3>1. /\ Attributed \subseteq Book
          /\ "allocation" \in Book /\ "budget" \in Book /\ "alert" \in Book
      BY DEF Attributed, Book
    <3>2. BooksCounted BY <2>1, FS_EmptySet DEF BooksCounted
    <3>. QED
      BY <2>1, <3>1, <3>2
      DEF FinOpsInv, BooksShaped, CentersExist, AllocationsListed, AlertsReached
  <2>3. RingInv BY RingAssumption DEF PlatformInit, CapacityInit, RingInv, EmptyMap
  <2>. QED BY <2>2, <2>3
<1>2. Inv /\ [PlatformNext]_platformVars => Inv'
  <2>. SUFFICES ASSUME Inv, [PlatformNext]_platformVars PROVE Inv' OBVIOUS
  <2>1. FinOpsInv'
    <3>1. CASE finops' = finops
      BY <3>1 DEF FinOpsInv, BooksShaped, BooksCounted, CentersExist, AllocationsListed,
                  AlertsReached
    <3>. QED BY <3>1, PartSteps, FinOpsStep
  <2>2. RingInv'
    <3>1. CASE capacity' = capacity BY <3>1 DEF RingInv
    <3>. QED BY <3>1, PartSteps, RingStep
  <2>. QED BY <2>1, <2>2
<1>3. Inv => CostsAttributed
  <2>. SUFFICES ASSUME Inv PROVE CostsAttributed OBVIOUS
  <2>1. Min({capacity.count, RingSize})
          = IF capacity.count <= RingSize THEN capacity.count ELSE RingSize
    BY RingAssumption DEF Min, RingInv
  <2>2. DOMAIN capacity.ring = 0..Min({capacity.count, RingSize}) - 1
    BY <2>1 DEF RingInv
  <2>. QED
    BY <2>2 DEF CostsAttributed, FinOpsInv, BooksCounted, CentersExist, AllocationsListed,
                AlertsReached, Attributed
<1>. QED BY <1>1, <1>2, <1>3, PTL DEF PlatformSpec

-----------------------------------------------------------------------------
(* Sustainability: carbon credits.                                           *)

CarbonFields ==
    {"credits", "byIssuer", "byHolder", "tokens", "registry", "audits", "issued",
     "retired", "co2e"}
CreditFields ==
    {"tonnes", "issuer", "energy", "status", "verification_body", "expiration_date",
     "retirement_date", "token", "token_owner", "registry", "standard", "verifications",
     "version"}

RetiredOf(credits) == {id \in DOMAIN credits : credits[id].status = "Retired"}
TonnesOf(credits) == [id \in DOMAIN credits |-> credits[id].tonnes]

(* A credit is a record, dated once it is retired.                           *)
CreditKept(c) ==
    /\ DOMAIN c = CreditFields
    /\ c.tonnes \in Nat
    /\ c.status = "Retired" => c.retirement_date # None

(* The totals cover what is retired.                                         *)
TotalsCover ==
    /\ IsFiniteSet(DOMAIN carbon.credits)
    /\ carbon.retired \in Nat /\ carbon.co2e \in Nat
    /\ carbon.co2e >= Total(TonnesOf(carbon.credits), RetiredOf(carbon.credits))
    /\ carbon.retired >= Cardinality(RetiredOf(carbon.credits))

(* Each credit is in the list of its issuer.                                 *)
ListedFor(id, issuer) ==
    /\ issuer \in DOMAIN carbon.byIssuer
    /\ \E k \in DOMAIN carbon.byIssuer[issuer] : carbon.byIssuer[issuer][k] = id

IssuesListed ==
    /\ \A a \in DOMAIN carbon.byIssuer : IsList(carbon.byIssuer[a])
    /\ \A id \in DOMAIN carbon.credits : ListedFor(id, carbon.credits[id].issuer)

CarbonInv ==
    /\ DOMAIN carbon = CarbonFields
    /\ \A id \in DOMAIN carbon.credits : CreditKept(carbon.credits[id])
    /\ TotalsCover
    /\ IssuesListed

(* c is written under id, and nothing else.                                  *)
CreditWritten(id, c) ==
    /\ DOMAIN carbon' = CarbonFields
    /\ DOMAIN carbon'.credits = DOMAIN carbon.credits \cup {id}
    /\ carbon'.credits[id] = c
    /\ \A x \in DOMAIN carbon.credits : x # id => carbon'.credits[x] = carbon.credits[x]

(* A sum over retired credits as the published total has it.                 *)
LEMMA RetiredTonnes ==
    ASSUME NEW credits, IsFiniteSet(DOMAIN credits)
    PROVE  /\ IsFiniteSet(RetiredOf(credits))
           /\ Total([id \in RetiredOf(credits) |-> credits[id].tonnes], RetiredOf(credits))
                = Total(TonnesOf(credits), RetiredOf(credits))
<1>. DEFINE R == RetiredOf(credits)
            f == [id \in R |-> credits[id].tonnes]
            g == TonnesOf(credits)
<1>1. R \in SUBSET DOMAIN credits BY DEF RetiredOf
<1>2. IsFiniteSet(R) BY <1>1, FS_Subset
<1>3. \A x \in R : f[x] = g[x] BY <1>1 DEF TonnesOf
<1>. HIDE DEF R, f, g
<1>4. Total(f, R) = Total(g, R) BY <1>2, <1>3, TotalSame
<1>. QED BY <1>2, <1>4 DEF R, f, g

(* Credits that are written keep the totals covering, if a credit newly      *)
(* retired is added to both.                                                 *)
LEMMA WrittenCovered ==
    ASSUME CarbonInv, NEW id, NEW c, CreditWritten(id, c), CreditKept(c),
           \/ /\ c.status # "Retired"
              /\ carbon'.retired = carbon.retired /\ carbon'.co2e = carbon.co2e
           \/ /\ c.status = "Retired" /\ id \in RetiredOf(carbon.credits)
              /\ c.tonnes = carbon.credits[id].tonnes
              /\ carbon'.retired = carbon.retired /\ carbon'.co2e = carbon.co2e
           \/ /\ c.status = "Retired" /\ id \notin RetiredOf(carbon.credits)
              /\ carbon'.retired = carbon.retired + 1
              /\ carbon'.co2e = carbon.co2e + c.tonnes
    PROVE  TotalsCover' /\ \A x \in DOMAIN carbon'.credits : CreditKept(carbon'.credits[x])
<1>. DEFINE D == DOMAIN carbon.credits
            R == RetiredOf(carbon.credits)
            Q == RetiredOf(carbon'.credits)
            f == TonnesOf(carbon.credits)
            g == TonnesOf(carbon'.credits)
<1>1. /\ IsFiniteSet(D) /\ carbon.retired \in Nat /\ carbon.co2e \in Nat
      /\ carbon.co2e >= Total(f, R) /\ carbon.retired >= Cardinality(R)
  BY DEF CarbonInv, TotalsCover
<1>2. /\ DOMAIN carbon'.credits = D \cup {id} /\ carbon'.credits[id] = c
      /\ \A x \in D : x # id => carbon'.credits[x] = carbon.credits[x]
  BY DEF CreditWritten
<1>3. \A x \in DOMAIN carbon'.credits : CreditKept(carbon'.credits[x])
  BY <1>2 DEF CarbonInv
<1>4. IsFiniteSet(DOMAIN carbon'.credits) BY <1>1, <1>2, FS_AddElement
<1>5. IsFiniteSet(R) /\ IsFiniteSet(Q)
  <2>1. R \in SUBSET D /\ Q \in SUBSET DOMAIN carbon'.credits BY DEF RetiredOf
  <2>. QED BY <2>1, <1>1, <1>4, FS_Subset
<1>6. /\ \A x \in D : f[x] = carbon.credits[x].tonnes /\ f[x] \in Nat
      /\ \A x \in D \cup {id} : g[x] = carbon'.credits[x].tonnes /\ g[x] \in Nat
  BY <1>2, <1>3 DEF TonnesOf, CarbonInv, CreditKept
<1>7. /\ R \subseteq D /\ Q \subseteq D \cup {id}
      /\ \A x \in D : x # id => (x \in Q <=> x \in R) /\ f[x] = g[x]
      /\ id \in Q <=> c.status = "Retired"
      /\ g[id] = c.tonnes
  BY <1>2, <1>6 DEF RetiredOf
<1>8. TotalsCover' <=> /\ carbon'.retired \in Nat /\ carbon'.co2e \in Nat
                       /\ carbon'.co2e >= Total(g, Q) /\ carbon'.retired >= Cardinality(Q)
  BY <1>4 DEF TotalsCover
<1>. HIDE DEF D, R, Q, f, g
<1>9. Total(f, R) \in Nat /\ Cardinality(R) \in Nat /\ Cardinality(Q) \in Nat
  <2>1. \A x \in R : f[x] \in Nat BY <1>6, <1>7
  <2>. QED BY <2>1, <1>5, TotalType, FS_CardinalityType
<1>10. CASE c.status # "Retired"
  <2>1. Q \in SUBSET R /\ \A x \in Q : f[x] = g[x] BY <1>7, <1>10
  <2>2. \A x \in R : f[x] \in Nat BY <1>6, <1>7
  <2>3. Total(f, Q) <= Total(f, R) BY <2>1, <2>2, <1>5, TotalPart
  <2>4. Total(f, Q) = Total(g, Q) BY <2>1, <1>5, TotalSame
  <2>5. Cardinality(Q) <= Cardinality(R) BY <2>1, <1>5, FS_Subset
  <2>6. Total(g, Q) \in Nat
    <3>1. \A x \in Q : g[x] \in Nat BY <1>6, <1>7
    <3>. QED BY <3>1, <1>5, TotalType
  <2>7. carbon'.retired = carbon.retired /\ carbon'.co2e = carbon.co2e BY <1>10
  <2>. QED BY <1>1, <1>3, <1>8, <1>9, <2>3, <2>4, <2>5, <2>6, <2>7
<1>11. CASE c.status = "Retired" /\ id \in R
  <2>1. c.tonnes = carbon.credits[id].tonnes /\ id \in D BY <1>7, <1>11 DEF R
  <2>2. Q = R /\ \A x \in R : f[x] = g[x]
    <3>1. id \in Q /\ f[id] = g[id] BY <1>6, <1>7, <1>11, <2>1
    <3>2. \A x \in Q : x \in R BY <1>7, <1>11
    <3>3. \A x \in R : x \in Q /\ f[x] = g[x] BY <1>7, <3>1
    <3>. QED BY <3>2, <3>3
  <2>3. Total(g, Q) = Total(f, R) BY <2>2, <1>5, TotalSame
  <2>4. carbon'.retired = carbon.retired /\ carbon'.co2e = carbon.co2e BY <1>11 DEF R
  <2>. QED BY <1>1, <1>3, <1>8, <2>2, <2>3, <2>4
<1>12. CASE c.status = "Retired" /\ id \notin R
  <2>1. Q = R \cup {id} /\ Q \ {id} = R /\ id \in Q BY <1>7, <1>12
  <2>2. \A x \in Q : g[x] \in Int BY <1>6, <1>7
  <2>3. Total(g, Q) = g[id] + Total(g, Q \ {id}) BY <2>1, <2>2, <1>5, TotalTake
  <2>4. Total(f, R) = Total(g, R)
    <3>1. \A x \in R : f[x] = g[x] BY <1>7, <1>12
    <3>. QED BY <3>1, <1>5, TotalSame
  <2>5. Cardinality(Q) = Cardinality(R) + 1 BY <2>1, <1>5, <1>12, FS_AddElement
  <2>6. carbon'.retired = carbon.retired + 1 /\ carbon'.co2e = carbon.co2e + c.tonnes
    BY <1>12 DEF R
  <2>7. c.tonnes \in Nat BY DEF CreditKept
  <2>8. Total(g, Q) = c.tonnes + Total(f, R) BY <2>1, <2>3, <2>4, <1>7
  <2>9. PICK t \in Nat, u \in Nat, v \in Nat :
          t = c.tonnes /\ u = Total(f, R) /\ v = carbon.co2e
    BY <2>7, <1>1, <1>9
  <2>10. carbon'.co2e = v + t /\ Total(g, Q) = t + u /\ v >= u
    BY <2>6, <2>8, <2>9, <1>1
  <2>11. carbon'.co2e \in Nat /\ carbon'.co2e >= Total(g, Q) BY <2>10
  <2>12. carbon'.retired \in Nat /\ carbon'.retired >= Cardinality(Q)
    BY <2>5, <2>6, <1>1, <1>9
  <2>. QED BY <1>3, <1>8, <2>11, <2>12
<1>. QED BY <1>10, <1>11, <1>12 DEF R

(* A credit that is rewritten keeps its issuer and so its place.             *)
LEMMA RewrittenListed ==
    ASSUME CarbonInv, NEW id \in DOMAIN carbon.credits, NEW c, CreditWritten(id, c),
           c.issuer = carbon.credits[id].issuer, carbon'.byIssuer = carbon.byIssuer
    PROVE  IssuesListed'
BY DEF CarbonInv, CreditWritten, IssuesListed, ListedFor

(* Every call of carbon_credits.rs keeps the totals and the lists.           *)
LEMMA CarbonStep ==
    ASSUME CarbonInv, CarbonNext
    PROVE  CarbonInv'
<1>0. DOMAIN carbon = CarbonFields /\ TotalsCover /\ IssuesListed BY DEF CarbonInv
<1>1. ASSUME NEW id \in DOMAIN carbon.credits, NEW c, CreditWritten(id, c),
             DOMAIN c = CreditFields,
             c.tonnes = carbon.credits[id].tonnes, c.issuer = carbon.credits[id].issuer,
             carbon'.byIssuer = carbon.byIssuer,
             carbon'.retired = carbon.retired, carbon'.co2e = carbon.co2e,
             \/ c.status = "Active"
             \/ /\ c.status = carbon.credits[id].status
                /\ c.retirement_date = carbon.credits[id].retirement_date
      PROVE  CarbonInv'
  <2>1. CreditKept(carbon.credits[id]) BY DEF CarbonInv
  <2>2. CreditKept(c) BY <1>1, <2>1 DEF CreditKept
  <2>3. c.status = "Retired" => id \in RetiredOf(carbon.credits) BY <1>1 DEF RetiredOf
  <2>4. TotalsCover' /\ \A x \in DOMAIN carbon'.credits : CreditKept(carbon'.credits[x])
    BY <1>1, <2>2, <2>3, WrittenCovered
  <2>5. IssuesListed' BY <1>1, RewrittenListed
  <2>. QED BY <1>1, <2>4, <2>5 DEF CarbonInv, CreditWritten
<1>2. ASSUME NEW issuer \in Account, NEW t \in Amount, NEW e \in Amount,
             NEW s \in ComplianceStandard,
             issue_carbon_credit(issuer, t, e, s, issuer, clock + 1)
      PROVE  CarbonInv'
  <2>1. PICK id : id = <<t, issuer, clock>> OBVIOUS
  <2>2. PICK c : c = [tonnes |-> t, issuer |-> issuer, energy |-> e,
                   status |-> "Issued", verification_body |-> issuer,
                   expiration_date |-> clock + 1, retirement_date |-> None, token |-> None,
                   token_owner |-> None, registry |-> None, standard |-> s,
                   verifications |-> 0, version |-> 1]
    OBVIOUS
  <2>3. carbon' = [carbon EXCEPT !.credits = Put(@, id, c),
                                 !.byIssuer = PushTo(@, issuer, id), !.issued = @ + 1]
    BY <1>2, <2>1, <2>2 DEF issue_carbon_credit
  <2>4. /\ carbon'.credits = Put(carbon.credits, id, c)
        /\ carbon'.byIssuer = PushTo(carbon.byIssuer, issuer, id)
        /\ carbon'.retired = carbon.retired /\ carbon'.co2e = carbon.co2e
        /\ DOMAIN carbon' = CarbonFields
    BY <2>3, <1>0 DEF CarbonFields
  <2>5. CreditWritten(id, c) BY <2>4 DEF CreditWritten, Put
  <2>6. CreditKept(c) /\ c.status # "Retired" /\ c.issuer = issuer
    BY <2>2, PlatformAssumption DEF CreditKept, CreditFields
  <2>7. TotalsCover' /\ \A x \in DOMAIN carbon'.credits : CreditKept(carbon'.credits[x])
    BY <2>4, <2>5, <2>6, WrittenCovered
  <2>8. IssuesListed'
    <3>1. PICK old : old = GetOr(carbon.byIssuer, issuer, <<>>) OBVIOUS
    <3>2. IsList(old)
      <4>1. IsList(<<>>) BY DEF IsList
      <4>. QED BY <4>1, <3>1, <1>0 DEF GetOr, IssuesListed
    <3>3. PICK new : new = Append(old, id) OBVIOUS
    <3>4. /\ DOMAIN carbon'.byIssuer = DOMAIN carbon.byIssuer \cup {issuer}
          /\ carbon'.byIssuer[issuer] = new
          /\ \A a \in DOMAIN carbon.byIssuer : a # issuer =>
                carbon'.byIssuer[a] = carbon.byIssuer[a]
      BY <2>4, <3>1, <3>3 DEF PushTo, Put
    <3>5. /\ IsList(new) /\ Len(old) \in Nat
          /\ DOMAIN new = 1..(Len(old) + 1) /\ new[Len(old) + 1] = id
          /\ DOMAIN old = 1..Len(old) /\ \A k \in 1..Len(old) : new[k] = old[k]
      BY <3>2, <3>3, ListFacts
    <3>6. Len(old) + 1 \in DOMAIN new /\ \A k \in DOMAIN old : k \in DOMAIN new
      BY <3>5
    <3>7. ASSUME NEW x \in DOMAIN carbon'.credits
          PROVE  LET a == carbon'.credits[x].issuer
                 IN  /\ a \in DOMAIN carbon'.byIssuer
                     /\ \E k \in DOMAIN carbon'.byIssuer[a] : carbon'.byIssuer[a][k] = x
      <4>1. CASE x = id BY <4>1, <2>5, <2>6, <3>4, <3>5, <3>6 DEF CreditWritten, ListedFor
      <4>2. CASE x # id
        <5>1. x \in DOMAIN carbon.credits /\ carbon'.credits[x] = carbon.credits[x]
          BY <4>2, <2>5 DEF CreditWritten
        <5>2. ListedFor(x, carbon.credits[x].issuer) BY <5>1, <1>0 DEF IssuesListed
        <5>3. CASE carbon.credits[x].issuer = issuer
          <6>1. old = carbon.byIssuer[issuer] /\ \E k \in DOMAIN old : old[k] = x
            BY <5>2, <5>3, <3>1 DEF ListedFor, GetOr
          <6>2. \E k \in DOMAIN new : new[k] = x BY <6>1, <3>5, <3>6
          <6>. QED BY <5>1, <5>3, <6>2, <3>4 DEF ListedFor
        <5>4. CASE carbon.credits[x].issuer # issuer
          BY <5>1, <5>2, <5>4, <3>4 DEF ListedFor
        <5>. QED BY <5>3, <5>4
      <4>. QED BY <4>1, <4>2
    <3>8. \A a \in DOMAIN carbon'.byIssuer : IsList(carbon'.byIssuer[a])
      BY <3>4, <3>5, <1>0 DEF IssuesListed
    <3>. QED BY <3>7, <3>8 DEF IssuesListed, ListedFor
  <2>. QED BY <2>4, <2>7, <2>8 DEF CarbonInv
<1>3. ASSUME NEW id \in DOMAIN carbon.credits, retire_credit(id)
      PROVE  CarbonInv'
  <2>1. PICK old : old = carbon.credits[id] OBVIOUS
  <2>2. PICK c : c = [old EXCEPT !.status = "Retired", !.retirement_date = Some(clock)] OBVIOUS
  <2>3. CreditKept(old) BY <2>1 DEF CarbonInv
  <2>4. /\ DOMAIN c = CreditFields /\ c.tonnes = old.tonnes /\ c.issuer = old.issuer
        /\ c.status = "Retired" /\ c.retirement_date = Some(clock)
    BY <2>2, <2>3 DEF CreditKept, CreditFields
  <2>5. /\ carbon'.credits = [carbon.credits EXCEPT ![id] = c]
        /\ carbon'.byIssuer = carbon.byIssuer
        /\ carbon'.retired = carbon.retired + 1 /\ carbon'.co2e = carbon.co2e + old.tonnes
        /\ DOMAIN carbon' = CarbonFields /\ old.status # "Retired"
    BY <1>3, <1>0, <2>1, <2>2 DEF retire_credit, CarbonFields
  <2>6. CreditWritten(id, c) BY <2>5 DEF CreditWritten
  <2>7. CreditKept(c) BY <2>3, <2>4 DEF CreditKept, None, Some
  <2>8. id \notin RetiredOf(carbon.credits) BY <2>1, <2>5 DEF RetiredOf
  <2>9. TotalsCover' /\ \A x \in DOMAIN carbon'.credits : CreditKept(carbon'.credits[x])
    BY <2>4, <2>5, <2>6, <2>7, <2>8, WrittenCovered
  <2>10. IssuesListed' BY <2>1, <2>4, <2>5, <2>6, RewrittenListed
  <2>. QED BY <2>5, <2>9, <2>10 DEF CarbonInv
<1>4. ASSUME NEW id \in DOMAIN carbon.credits, NEW c,
             carbon'.credits = [carbon.credits EXCEPT ![id] = c],
             carbon'.byIssuer = carbon.byIssuer, carbon'.retired = carbon.retired,
             carbon'.co2e = carbon.co2e, DOMAIN carbon' = CarbonFields,
             DOMAIN c = CreditFields,
             c.tonnes = carbon.credits[id].tonnes, c.issuer = carbon.credits[id].issuer,
             \/ c.status = "Active"
             \/ /\ c.status = carbon.credits[id].status
                /\ c.retirement_date = carbon.credits[id].retirement_date
      PROVE  CarbonInv'
  <2>1. CreditWritten(id, c) BY <1>4 DEF CreditWritten
  <2>. QED BY <1>1, <1>4, <2>1
<1>5. ASSUME carbon'.credits = carbon.credits, carbon'.byIssuer = carbon.byIssuer,
             carbon'.retired = carbon.retired, carbon'.co2e = carbon.co2e,
             DOMAIN carbon' = CarbonFields
      PROVE  CarbonInv'
  BY <1>5 DEF CarbonInv, TotalsCover, IssuesListed, ListedFor
<1>6. \A id \in DOMAIN carbon.credits : DOMAIN carbon.credits[id] = CreditFields
  BY DEF CarbonInv, CreditKept
<1>7. ASSUME NEW id \in DOMAIN carbon.credits, register_credit(id, "registry")
      PROVE  CarbonInv'
  <2>1. PICK c : c = [carbon.credits[id] EXCEPT !.registry = Some("registry")] OBVIOUS
  <2>2. /\ carbon'.credits = [carbon.credits EXCEPT ![id] = c]
        /\ carbon'.byIssuer = carbon.byIssuer /\ carbon'.retired = carbon.retired
        /\ carbon'.co2e = carbon.co2e /\ DOMAIN carbon' = CarbonFields
    BY <1>0, <1>7, <2>1 DEF register_credit, CarbonFields
  <2>3. /\ DOMAIN c = CreditFields /\ c.tonnes = carbon.credits[id].tonnes
        /\ c.issuer = carbon.credits[id].issuer /\ c.status = carbon.credits[id].status
        /\ c.retirement_date = carbon.credits[id].retirement_date
    BY <1>6, <2>1 DEF CreditFields
  <2>. QED BY <1>4, <2>2, <2>3
<1>8. ASSUME NEW id \in DOMAIN carbon.credits, NEW e, verify_renewable_energy(id, e)
      PROVE  CarbonInv'
  <2>1. PICK n : n = carbon.credits[id].verifications + 1 OBVIOUS
  <2>2. PICK c : c = [carbon.credits[id] EXCEPT !.verifications = n, !.status = "Active"]
    OBVIOUS
  <2>3. /\ carbon'.credits = [carbon.credits EXCEPT ![id] = c]
        /\ carbon'.byIssuer = carbon.byIssuer /\ carbon'.retired = carbon.retired
        /\ carbon'.co2e = carbon.co2e /\ DOMAIN carbon' = CarbonFields
    BY <1>0, <1>8, <2>1, <2>2 DEF verify_renewable_energy, CarbonFields
  <2>4. /\ DOMAIN c = CreditFields /\ c.tonnes = carbon.credits[id].tonnes
        /\ c.issuer = carbon.credits[id].issuer /\ c.status = "Active"
    BY <1>6, <2>2 DEF CreditFields
  <2>. QED BY <1>4, <2>3, <2>4
<1>9. ASSUME NEW id \in DOMAIN carbon.credits, NEW s, link_to_standard(id, s)
      PROVE  CarbonInv'
  <2>1. PICK c : c = [carbon.credits[id] EXCEPT !.standard = s] OBVIOUS
  <2>2. /\ carbon'.credits = [carbon.credits EXCEPT ![id] = c]
        /\ carbon'.byIssuer = carbon.byIssuer /\ carbon'.retired = carbon.retired
        /\ carbon'.co2e = carbon.co2e /\ DOMAIN carbon' = CarbonFields
    BY <1>0, <1>9, <2>1 DEF link_to_standard, CarbonFields
  <2>3. /\ DOMAIN c = CreditFields /\ c.tonnes = carbon.credits[id].tonnes
        /\ c.issuer = carbon.credits[id].issuer /\ c.status = carbon.credits[id].status
        /\ c.retirement_date = carbon.credits[id].retirement_date
    BY <1>6, <2>1 DEF CreditFields
  <2>. QED BY <1>4, <2>2, <2>3
<1>10. ASSUME NEW a, update_registry("registry", a)
       PROVE  CarbonInv'
  <2>1. /\ carbon'.credits = carbon.credits /\ carbon'.byIssuer = carbon.byIssuer
        /\ carbon'.retired = carbon.retired /\ carbon'.co2e = carbon.co2e
        /\ DOMAIN carbon' = CarbonFields
    BY <1>0, <1>10 DEF update_registry, CarbonFields
  <2>. QED BY <1>5, <2>1
<1>11. ASSUME NEW id \in DOMAIN carbon.credits, NEW a, tokenize_credit(id, a)
       PROVE  CarbonInv'
  <2>1. PICK n : n = carbon.credits[id].version + 1 OBVIOUS
  <2>2. PICK t : t = Some(<<a, clock>>) OBVIOUS
  <2>3. PICK c : c = [carbon.credits[id] EXCEPT !.token = t, !.token_owner = Some(a),
                                                !.version = n]
    OBVIOUS
  <2>4. /\ carbon'.credits = [carbon.credits EXCEPT ![id] = c]
        /\ carbon'.byIssuer = carbon.byIssuer /\ carbon'.retired = carbon.retired
        /\ carbon'.co2e = carbon.co2e /\ DOMAIN carbon' = CarbonFields
    BY <1>0, <1>11, <2>1, <2>2, <2>3 DEF tokenize_credit, CarbonFields
  <2>5. /\ DOMAIN c = CreditFields /\ c.tonnes = carbon.credits[id].tonnes
        /\ c.issuer = carbon.credits[id].issuer /\ c.status = carbon.credits[id].status
        /\ c.retirement_date = carbon.credits[id].retirement_date
    BY <1>6, <2>3 DEF CreditFields
  <2>. QED BY <1>4, <2>4, <2>5
<1>12. ASSUME NEW id \in DOMAIN carbon.credits, NEW to, transfer_credit(id, to)
       PROVE  CarbonInv'
  <2>1. PICK o : o = IF carbon.credits[id].token_owner = None
                     THEN carbon.credits[id].token_owner ELSE Some(to)
    OBVIOUS
  <2>2. PICK c : c = [carbon.credits[id] EXCEPT !.token_owner = o] OBVIOUS
  <2>3. /\ carbon'.credits = [carbon.credits EXCEPT ![id] = c]
        /\ carbon'.byIssuer = carbon.byIssuer /\ carbon'.retired = carbon.retired
        /\ carbon'.co2e = carbon.co2e /\ DOMAIN carbon' = CarbonFields
    BY <1>0, <1>12, <2>1, <2>2 DEF transfer_credit, CarbonFields
  <2>4. /\ DOMAIN c = CreditFields /\ c.tonnes = carbon.credits[id].tonnes
        /\ c.issuer = carbon.credits[id].issuer /\ c.status = carbon.credits[id].status
        /\ c.retirement_date = carbon.credits[id].retirement_date
    BY <1>6, <2>2 DEF CreditFields
  <2>. QED BY <1>4, <2>3, <2>4
<1>13. ASSUME NEW id, NEW a, NEW e, audit_renewable_usage(id, a, e)
       PROVE  CarbonInv'
  <2>1. /\ carbon'.credits = carbon.credits /\ carbon'.byIssuer = carbon.byIssuer
        /\ carbon'.retired = carbon.retired /\ carbon'.co2e = carbon.co2e
        /\ DOMAIN carbon' = CarbonFields
    BY <1>0, <1>13 DEF audit_renewable_usage, CarbonFields
  <2>. QED BY <1>5, <2>1
<1>. QED BY <1>2, <1>3, <1>7, <1>8, <1>9, <1>10, <1>11, <1>12, <1>13 DEF CarbonNext

LEMMA CarbonInvCovers ==
    ASSUME CarbonInv
    PROVE  RetirementsCovered
<1>1. /\ Total([id \in RetiredOf(carbon.credits) |-> carbon.credits[id].tonnes],
               RetiredOf(carbon.credits))
           = Total(TonnesOf(carbon.credits), RetiredOf(carbon.credits))
  BY RetiredTonnes DEF CarbonInv, TotalsCover
<1>2. \A id \in RetiredOf(carbon.credits) : carbon.credits[id].retirement_date # None
  BY DEF CarbonInv, CreditKept, RetiredOf
<1>3. \A id \in DOMAIN carbon.credits :
        Contains(carbon.byIssuer[carbon.credits[id].issuer], id)
  <2>1. ASSUME NEW id \in DOMAIN carbon.credits
        PROVE  Contains(carbon.byIssuer[carbon.credits[id].issuer], id)
    <3>1. PICK s : s = carbon.byIssuer[carbon.credits[id].issuer] OBVIOUS
    <3>2. IsList(s) /\ \E k \in DOMAIN s : s[k] = id
      BY <3>1 DEF CarbonInv, IssuesListed, ListedFor
    <3>3. DOMAIN s = 1..Len(s) BY <3>2, ListFacts
    <3>. QED BY <3>1, <3>2, <3>3 DEF Contains
  <2>. QED BY <2>1
<1>4. /\ carbon.co2e >= Total(TonnesOf(carbon.credits), RetiredOf(carbon.credits))
      /\ carbon.retired >= Cardinality(RetiredOf(carbon.credits))
  BY DEF CarbonInv, TotalsCover
<1>. QED BY <1>1, <1>2, <1>3, <1>4 DEF RetirementsCovered, RetiredOf

LEMMA CarbonBegins ==
    ASSUME CarbonInit
    PROVE  CarbonInv
<1>1. /\ DOMAIN carbon = CarbonFields /\ carbon.credits = EmptyMap
      /\ carbon.byIssuer = EmptyMap /\ carbon.retired = 0 /\ carbon.co2e = 0
  BY DEF CarbonInit, CarbonFields
<1>2. DOMAIN EmptyMap = {} BY DEF EmptyMap
<1>3. RetiredOf(carbon.credits) = {} BY <1>1, <1>2 DEF RetiredOf
<1>4. Total(TonnesOf(carbon.credits), {}) = 0 BY FS_EmptySet, TotalNext
<1>5. TotalsCover BY <1>1, <1>2, <1>3, <1>4, FS_EmptySet DEF TotalsCover
<1>. QED BY <1>1, <1>2, <1>5 DEF CarbonInv, IssuesListed

-----------------------------------------------------------------------------
(* Sustainability: product passports.                                        *)

(* What pushing to a list under a key does.                                  *)
LEMMA Pushed ==
    ASSUME NEW f, NEW k, NEW v, NEW g, g = PushTo(f, k, v), IsList(ListUnder(f, k))
    PROVE  /\ IsList(ListUnder(g, k))
           /\ Len(ListUnder(f, k)) \in Nat
           /\ DOMAIN ListUnder(f, k) = 1..Len(ListUnder(f, k))
           /\ Len(ListUnder(g, k)) = Len(ListUnder(f, k)) + 1
           /\ DOMAIN ListUnder(g, k) = 1..(Len(ListUnder(f, k)) + 1)
           /\ ListUnder(g, k)[Len(ListUnder(f, k)) + 1] = v
           /\ \A i \in 1..Len(ListUnder(f, k)) : ListUnder(g, k)[i] = ListUnder(f, k)[i]
<1>1. PICK old : old = ListUnder(f, k) OBVIOUS
<1>2. PICK new : new = Append(old, v) OBVIOUS
<1>3. g = Put(f, k, new) BY <1>1, <1>2 DEF PushTo, ListUnder
<1>4. ListUnder(g, k) = new BY <1>3 DEF Put, ListUnder, GetOr
<1>5. /\ Len(old) \in Nat /\ IsList(new) /\ DOMAIN old = 1..Len(old)
      /\ DOMAIN new = 1..(Len(old) + 1) /\ new[Len(old) + 1] = v
      /\ \A i \in 1..Len(old) : new[i] = old[i]
  BY <1>1, <1>2, ListFacts
<1>6. Len(new) = Len(old) + 1
  <2>1. Len(new) \in Nat /\ DOMAIN new = 1..Len(new) BY <1>5, ListFacts
  <2>2. 1..Len(new) = 1..(Len(old) + 1) BY <2>1, <1>5
  <2>3. \A m, n \in Nat : 1..m = 1..(n + 1) => m = n + 1
    <3>1. ASSUME NEW m \in Nat, NEW n \in Nat, 1..m = 1..(n + 1) PROVE m = n + 1
      <4>1. n + 1 \in 1..(n + 1) OBVIOUS
      <4>2. n + 1 \in 1..m BY <3>1, <4>1
      <4>3. m \in 1..m BY <4>2
      <4>4. m \in 1..(n + 1) BY <3>1, <4>3
      <4>. QED BY <4>2, <4>4
    <3>. QED BY <3>1
  <2>. QED BY <2>1, <2>2, <2>3, <1>5
<1>. QED BY <1>1, <1>4, <1>5, <1>6

LEMMA PushedElsewhere ==
    ASSUME NEW f, NEW k, NEW v, NEW g, g = PushTo(f, k, v), NEW x, x # k
    PROVE  ListUnder(g, x) = ListUnder(f, x)
BY DEF PushTo, Put, ListUnder, GetOr

LEMMA EmptyList == IsList(<<>>) /\ Len(<<>>) = 0
BY DEF IsList

PassportFields ==
    {"cards", "listed", "stages", "repairs", "repairCount", "recyclings", "recyclingCount",
     "refurbishments", "compliance", "exports", "count"}
CardFields == {"manufacturer", "content", "stage", "created", "last_updated", "version"}

(* The history of a product joins up to the stage its passport is in.        *)
Joined(history) ==
    \A k \in DOMAIN history : k > 1 => history[k].previous \in {history[k - 1].stage, "Created"}
Reached(history, stage) ==
    stage # "Created" => Len(history) > 0 /\ history[Len(history)].stage = stage

HistoryJoined(p) ==
    LET history == ListUnder(passport.stages, p)
    IN  /\ IsList(history)
        /\ Joined(history)
        /\ p \in DOMAIN passport.cards => Reached(history, passport.cards[p].stage)

(* What is counted beside a list is its length.                              *)
Tallied(counts, lists, p) ==
    IsList(ListUnder(lists, p)) /\ GetOr(counts, p, 0) = Len(ListUnder(lists, p))

PassportInv ==
    /\ DOMAIN passport = PassportFields
    /\ \A p \in DOMAIN passport.cards : DOMAIN passport.cards[p] = CardFields
    /\ \A p \in Product :
        /\ HistoryJoined(p)
        /\ Tallied(passport.repairCount, passport.repairs, p)
        /\ Tallied(passport.recyclingCount, passport.recyclings, p)

(* A list and its count grow together.                                       *)
LEMMA TallyGrows ==
    ASSUME NEW counts, NEW lists, NEW p, NEW v, Tallied(counts, lists, p),
           NEW x, Tallied(counts, lists, x)
    PROVE  Tallied(Put(counts, p, GetOr(counts, p, 0) + 1), PushTo(lists, p, v), x)
<1>1. PICK g : g = PushTo(lists, p, v) OBVIOUS
<1>2. PICK n : n = GetOr(counts, p, 0) + 1 OBVIOUS
<1>3. IsList(ListUnder(lists, p)) BY DEF Tallied
<1>4. /\ IsList(ListUnder(g, p)) /\ Len(ListUnder(g, p)) = Len(ListUnder(lists, p)) + 1
  BY <1>1, <1>3, Pushed
<1>5. CASE x = p
  <2>1. GetOr(Put(counts, p, n), p, 0) = n BY DEF GetOr, Put
  <2>. QED BY <1>1, <1>2, <1>4, <1>5, <2>1 DEF Tallied
<1>6. CASE x # p
  <2>1. GetOr(Put(counts, p, n), x, 0) = GetOr(counts, x, 0) BY <1>6 DEF GetOr, Put
  <2>2. ListUnder(g, x) = ListUnder(lists, x) BY <1>1, <1>6, PushedElsewhere
  <2>. QED BY <1>1, <1>2, <2>2, <1>6, <2>1 DEF Tallied
<1>. QED BY <1>5, <1>6

(* What a change of stage does to a state of the module.                     *)
LEMMA StageMoved ==
    ASSUME NEW s, DOMAIN s = PassportFields, NEW p \in DOMAIN s.cards,
           DOMAIN s.cards[p] = CardFields, NEW stage, NEW actor, NEW t,
           t = Moved(s, p, stage, actor)
    PROVE  /\ DOMAIN t = PassportFields
           /\ t.stages = PushTo(s.stages, p, [stage |-> stage, previous |-> s.cards[p].stage,
                                              actor |-> actor, at |-> clock])
           /\ DOMAIN t.cards = DOMAIN s.cards
           /\ DOMAIN t.cards[p] = CardFields /\ t.cards[p].stage = stage
           /\ \A x \in DOMAIN s.cards : x # p => t.cards[x] = s.cards[x]
           /\ t.repairs = s.repairs /\ t.repairCount = s.repairCount
           /\ t.recyclings = s.recyclings /\ t.recyclingCount = s.recyclingCount
<1>1. PICK new : new = PushTo(s.stages, p, [stage |-> stage, previous |-> s.cards[p].stage,
                                            actor |-> actor, at |-> clock])
  OBVIOUS
<1>2. PICK c : c = [s.cards[p] EXCEPT !.stage = stage, !.last_updated = clock] OBVIOUS
<1>3. t = [s EXCEPT !.stages = new, !.cards = [s.cards EXCEPT ![p] = c]]
  BY <1>1, <1>2 DEF Moved, PassportFields
<1>4. DOMAIN c = CardFields /\ c.stage = stage BY <1>2 DEF CardFields
<1>5. PICK cs : cs = [s.cards EXCEPT ![p] = c] OBVIOUS
<1>6. /\ DOMAIN t = PassportFields /\ t.stages = new /\ t.cards = cs
      /\ t.repairs = s.repairs /\ t.repairCount = s.repairCount
      /\ t.recyclings = s.recyclings /\ t.recyclingCount = s.recyclingCount
  BY <1>3, <1>5 DEF PassportFields
<1>. QED BY <1>1, <1>4, <1>5, <1>6

(* A change of stage continues the history.                                  *)
LEMMA MoveJoins ==
    ASSUME PassportInv, NEW p \in Product, p \in DOMAIN passport.cards,
           NEW e, e.previous = passport.cards[p].stage,
           passport'.stages = PushTo(passport.stages, p, e),
           DOMAIN passport'.cards = DOMAIN passport.cards,
           passport'.cards[p].stage = e.stage,
           \A x \in DOMAIN passport.cards : x # p => passport'.cards[x] = passport.cards[x]
    PROVE  \A x \in Product : HistoryJoined(x)'
<1>1. PICK old : old = ListUnder(passport.stages, p) OBVIOUS
<1>2. PICK new : new = ListUnder(passport'.stages, p) OBVIOUS
<1>3. /\ IsList(old) /\ Joined(old) /\ Reached(old, passport.cards[p].stage)
  BY <1>1 DEF PassportInv, HistoryJoined
<1>4. /\ IsList(new) /\ Len(old) \in Nat /\ DOMAIN old = 1..Len(old)
      /\ Len(new) = Len(old) + 1 /\ DOMAIN new = 1..(Len(old) + 1)
      /\ new[Len(old) + 1] = e /\ \A i \in 1..Len(old) : new[i] = old[i]
  <2>1. PICK f : f = passport.stages OBVIOUS
  <2>2. PICK g : g = passport'.stages OBVIOUS
  <2>3. g = PushTo(f, p, e) /\ old = ListUnder(f, p) /\ new = ListUnder(g, p) /\ IsList(ListUnder(f, p))
    BY <1>1, <1>2, <1>3, <2>1, <2>2
  <2>. HIDE DEF ListUnder, PushTo
  <2>. QED BY <2>3, Pushed
<1>5. Joined(new)
  <2>1. ASSUME NEW k \in DOMAIN new, k > 1
        PROVE  new[k].previous \in {new[k - 1].stage, "Created"}
    <3>1. CASE k \in 1..Len(old)
      <4>1. k - 1 \in 1..Len(old) BY <2>1, <3>1, <1>4
      <4>2. old[k].previous \in {old[k - 1].stage, "Created"} BY <2>1, <3>1, <1>3, <1>4 DEF Joined
      <4>. QED BY <3>1, <4>1, <4>2, <1>4
    <3>2. CASE k = Len(old) + 1
      <4>1. Len(old) > 0 /\ k - 1 = Len(old) /\ Len(old) \in 1..Len(old) BY <2>1, <3>2, <1>4
      <4>2. new[k] = e /\ new[k - 1] = old[Len(old)] BY <3>2, <4>1, <1>4
      <4>. QED BY <4>2, <1>3 DEF Reached
    <3>. QED BY <3>1, <3>2, <1>4
  <2>. QED BY <2>1 DEF Joined
<1>6. Reached(new, e.stage) BY <1>4 DEF Reached
<1>7. ASSUME NEW x \in Product PROVE HistoryJoined(x)'
  <2>1. CASE x = p BY <2>1, <1>2, <1>4, <1>5, <1>6 DEF HistoryJoined
  <2>2. CASE x # p
    <3>1. ListUnder(passport'.stages, x) = ListUnder(passport.stages, x) BY <2>2, PushedElsewhere
    <3>. QED BY <2>2, <3>1 DEF PassportInv, HistoryJoined
  <2>. QED BY <2>1, <2>2
<1>. QED BY <1>7

(* Every call of digital_passport.rs keeps the histories joined.             *)
LEMMA PassportStep ==
    ASSUME PassportInv, PassportNext
    PROVE  PassportInv'
<1>0. /\ DOMAIN passport = PassportFields
      /\ \A p \in DOMAIN passport.cards : DOMAIN passport.cards[p] = CardFields
      /\ \A p \in Product : /\ HistoryJoined(p)
                            /\ Tallied(passport.repairCount, passport.repairs, p)
                            /\ Tallied(passport.recyclingCount, passport.recyclings, p)
  BY DEF PassportInv
<1>1. ASSUME DOMAIN passport' = PassportFields,
             passport'.cards = passport.cards, passport'.stages = passport.stages,
             passport'.repairs = passport.repairs,
             passport'.repairCount = passport.repairCount,
             passport'.recyclings = passport.recyclings,
             passport'.recyclingCount = passport.recyclingCount
      PROVE  PassportInv'
  BY <1>0, <1>1 DEF PassportInv, HistoryJoined
<1>2. ASSUME NEW p \in Product, NEW a, NEW c, create_passport(p, a, c) PROVE PassportInv'
  <2>1. PICK card : card = [manufacturer |-> a, content |-> c, stage |-> "Created",
                            created |-> clock, last_updated |-> clock, version |-> 1]
    OBVIOUS
  <2>2. DOMAIN card = CardFields /\ card.stage = "Created" BY <2>1 DEF CardFields
  <2>3. /\ DOMAIN passport' = PassportFields
        /\ passport'.cards = Put(passport.cards, p, card)
        /\ passport'.stages = passport.stages
        /\ passport'.repairs = passport.repairs
        /\ passport'.repairCount = passport.repairCount
        /\ passport'.recyclings = passport.recyclings
        /\ passport'.recyclingCount = passport.recyclingCount
    BY <1>0, <1>2, <2>1 DEF create_passport, PassportFields
  <2>4. /\ DOMAIN passport'.cards = DOMAIN passport.cards \cup {p}
        /\ passport'.cards[p] = card
        /\ \A x \in DOMAIN passport.cards : x # p => passport'.cards[x] = passport.cards[x]
    BY <2>3 DEF Put
  <2>5. \A x \in DOMAIN passport'.cards : DOMAIN passport'.cards[x] = CardFields
    BY <1>0, <2>2, <2>4
  <2>6. ASSUME NEW x \in Product PROVE HistoryJoined(x)'
    <3>1. HistoryJoined(x) BY <1>0
    <3>2. CASE x = p BY <3>1, <3>2, <2>2, <2>3, <2>4 DEF HistoryJoined, Reached
    <3>3. CASE x # p BY <3>1, <3>3, <2>3, <2>4 DEF HistoryJoined
    <3>. QED BY <3>2, <3>3
  <2>. QED BY <1>0, <2>3, <2>5, <2>6 DEF PassportInv
<1>3. ASSUME NEW p \in Product, NEW a, record_repair(p, a) PROVE PassportInv'
  <2>1. /\ DOMAIN passport' = PassportFields
        /\ passport'.cards = passport.cards /\ passport'.stages = passport.stages
        /\ passport'.repairs = PushTo(passport.repairs, p, a)
        /\ passport'.repairCount = Put(passport.repairCount, p,
                                       GetOr(passport.repairCount, p, 0) + 1)
        /\ passport'.recyclings = passport.recyclings
        /\ passport'.recyclingCount = passport.recyclingCount
    BY <1>0, <1>3 DEF record_repair, PassportFields
  <2>2. \A x \in Product : Tallied(passport'.repairCount, passport'.repairs, x)
    BY <1>0, <2>1, TallyGrows
  <2>. QED BY <1>0, <2>1, <2>2 DEF PassportInv, HistoryJoined
<1>4. ASSUME NEW s, NEW p \in Product, NEW stage, NEW actor, p \in DOMAIN passport.cards,
             DOMAIN s = PassportFields, s.cards = passport.cards,
             s.stages = passport.stages, s.repairs = passport.repairs,
             s.repairCount = passport.repairCount,
             \A x \in Product : Tallied(s.recyclingCount, s.recyclings, x),
             passport' = Moved(s, p, stage, actor)
      PROVE  PassportInv'
  <2>1. PICK e : e = [stage |-> stage, previous |-> passport.cards[p].stage,
                      actor |-> actor, at |-> clock]
    OBVIOUS
  <2>2. PICK t : t = passport' OBVIOUS
  <2>3. /\ DOMAIN t = PassportFields /\ t.stages = PushTo(passport.stages, p, e)
        /\ DOMAIN t.cards = DOMAIN passport.cards
        /\ DOMAIN t.cards[p] = CardFields /\ t.cards[p].stage = stage
        /\ \A x \in DOMAIN passport.cards : x # p => t.cards[x] = passport.cards[x]
        /\ t.repairs = s.repairs /\ t.repairCount = s.repairCount
        /\ t.recyclings = s.recyclings /\ t.recyclingCount = s.recyclingCount
    <3>1. p \in DOMAIN s.cards /\ DOMAIN s.cards[p] = CardFields BY <1>0, <1>4
    <3>2. t = Moved(s, p, stage, actor) BY <1>4, <2>2
    <3>. QED BY <3>1, <3>2, <1>4, <2>1, StageMoved
  <2>4. e.previous = passport.cards[p].stage /\ e.stage = stage BY <2>1
  <2>5. \A x \in Product : HistoryJoined(x)'
    BY <1>4, <2>2, <2>3, <2>4, MoveJoins
  <2>6. \A x \in DOMAIN passport'.cards : DOMAIN passport'.cards[x] = CardFields
    BY <1>0, <2>2, <2>3
  <2>. QED BY <1>0, <1>4, <2>2, <2>3, <2>5, <2>6 DEF PassportInv
<1>5. ASSUME NEW p \in Product, NEW a, NEW r \in {80, 81}, record_recycling(p, a, r)
      PROVE  PassportInv'
  <2>1. PICK s : s = [passport EXCEPT !.recyclings = PushTo(@, p, r),
                                      !.recyclingCount = Put(@, p, GetOr(@, p, 0) + 1)]
    OBVIOUS
  <2>2. /\ DOMAIN s = PassportFields /\ s.cards = passport.cards
        /\ s.stages = passport.stages /\ s.repairs = passport.repairs
        /\ s.repairCount = passport.repairCount
        /\ s.recyclings = PushTo(passport.recyclings, p, r)
        /\ s.recyclingCount = Put(passport.recyclingCount, p,
                                  GetOr(passport.recyclingCount, p, 0) + 1)
    BY <1>0, <2>1 DEF PassportFields
  <2>3. \A x \in Product : Tallied(s.recyclingCount, s.recyclings, x)
    BY <1>0, <2>2, TallyGrows
  <2>4. /\ r > 80 => p \in DOMAIN passport.cards
        /\ passport' = IF r > 80 THEN Moved(s, p, "Recycled", a) ELSE s
    BY <1>5, <2>1 DEF record_recycling, MayMove
  <2>5. CASE r > 80 BY <1>4, <2>2, <2>3, <2>4, <2>5
  <2>6. CASE ~(r > 80)
    <3>1. passport' = s BY <2>4, <2>6
    <3>. QED BY <3>1, <1>0, <2>2, <2>3 DEF PassportInv, HistoryJoined
  <2>. QED BY <2>5, <2>6
<1>6. ASSUME NEW p \in Product, NEW a, record_refurbishment(p, a) PROVE PassportInv'
  <2>1. PICK s : s = [passport EXCEPT !.refurbishments = PushTo(@, p, a)] OBVIOUS
  <2>2. /\ DOMAIN s = PassportFields /\ s.cards = passport.cards
        /\ s.stages = passport.stages /\ s.repairs = passport.repairs
        /\ s.repairCount = passport.repairCount
        /\ s.recyclings = passport.recyclings /\ s.recyclingCount = passport.recyclingCount
    BY <1>0, <2>1 DEF PassportFields
  <2>3. p \in DOMAIN passport.cards /\ passport' = Moved(s, p, "InMarket", a)
    BY <1>6, <2>1 DEF record_refurbishment, MayMove
  <2>4. \A x \in Product : Tallied(s.recyclingCount, s.recyclings, x) BY <1>0, <2>2
  <2>. QED BY <1>4, <2>2, <2>3, <2>4
<1>7. ASSUME NEW p \in Product, NEW stage, NEW a, transition_lifecycle_stage(p, stage, a)
      PROVE  PassportInv'
  <2>1. p \in DOMAIN passport.cards /\ passport' = Moved(passport, p, stage, a)
    BY <1>7 DEF transition_lifecycle_stage, MayMove
  <2>. QED BY <1>0, <1>4, <2>1
<1>8. ASSUME NEW p, generate_passport_export(p) PROVE PassportInv'
  <2>1. /\ DOMAIN passport' = PassportFields
        /\ passport'.cards = passport.cards /\ passport'.stages = passport.stages
        /\ passport'.repairs = passport.repairs
        /\ passport'.repairCount = passport.repairCount
        /\ passport'.recyclings = passport.recyclings
        /\ passport'.recyclingCount = passport.recyclingCount
    BY <1>0, <1>8 DEF generate_passport_export, PassportFields
  <2>. QED BY <1>1, <2>1
<1>9. ASSUME NEW p, NEW a, verify_espr_compliance(p, a) PROVE PassportInv'
  <2>1. /\ DOMAIN passport' = PassportFields
        /\ passport'.cards = passport.cards /\ passport'.stages = passport.stages
        /\ passport'.repairs = passport.repairs
        /\ passport'.repairCount = passport.repairCount
        /\ passport'.recyclings = passport.recyclings
        /\ passport'.recyclingCount = passport.recyclingCount
    BY <1>0, <1>9 DEF verify_espr_compliance, PassportFields
  <2>. QED BY <1>1, <2>1
<1>10. ASSUME NEW p \in DOMAIN passport.cards, NEW a, NEW c, update_passport(p, a, c)
       PROVE  PassportInv'
  <2>1. PICK n : n = passport.cards[p].version + 1 OBVIOUS
  <2>2. PICK card : card = [passport.cards[p] EXCEPT !.content = c, !.last_updated = clock,
                                                    !.version = n]
    OBVIOUS
  <2>3. DOMAIN card = CardFields /\ card.stage = passport.cards[p].stage
    BY <1>0, <2>2 DEF CardFields
  <2>4. /\ DOMAIN passport' = PassportFields
        /\ passport'.cards = [passport.cards EXCEPT ![p] = card]
        /\ passport'.stages = passport.stages
        /\ passport'.repairs = passport.repairs
        /\ passport'.repairCount = passport.repairCount
        /\ passport'.recyclings = passport.recyclings
        /\ passport'.recyclingCount = passport.recyclingCount
    BY <1>0, <1>10, <2>1, <2>2 DEF update_passport, PassportFields
  <2>5. /\ DOMAIN passport'.cards = DOMAIN passport.cards
        /\ \A x \in DOMAIN passport.cards :
              /\ passport'.cards[x].stage = passport.cards[x].stage
              /\ DOMAIN passport'.cards[x] = CardFields
    BY <1>0, <2>3, <2>4
  <2>6. \A x \in Product : HistoryJoined(x)' BY <1>0, <2>4, <2>5 DEF HistoryJoined
  <2>. QED BY <1>0, <2>4, <2>5, <2>6 DEF PassportInv
<1>. QED
  BY <1>2, <1>3, <1>5, <1>6, <1>7, <1>8, <1>9, <1>10 DEF PassportNext

LEMMA PassportInvTraces ==
    ASSUME PassportInv
    PROVE  LifecycleTraced
<1>1. ASSUME NEW p \in Product
      PROVE  LET history == ListUnder(passport.stages, p)
             IN  /\ \A k \in DOMAIN history : k > 1 =>
                       history[k].previous \in {history[k - 1].stage, "Created"}
                 /\ p \in DOMAIN passport.cards /\ passport.cards[p].stage # "Created" =>
                       history # <<>> /\ Last(history).stage = passport.cards[p].stage
                 /\ GetOr(passport.repairCount, p, 0) = Len(ListUnder(passport.repairs, p))
                 /\ GetOr(passport.recyclingCount, p, 0)
                      = Len(ListUnder(passport.recyclings, p))
  <2>1. PICK h : h = ListUnder(passport.stages, p) OBVIOUS
  <2>2. /\ IsList(h) /\ Joined(h)
        /\ p \in DOMAIN passport.cards => Reached(h, passport.cards[p].stage)
    BY <2>1 DEF PassportInv, HistoryJoined
  <2>3. Len(<<>>) = 0 OBVIOUS
  <2>4. p \in DOMAIN passport.cards /\ passport.cards[p].stage # "Created" =>
           h # <<>> /\ Last(h).stage = passport.cards[p].stage
    BY <2>2, <2>3 DEF Reached, Last
  <2>5. /\ Tallied(passport.repairCount, passport.repairs, p)
        /\ Tallied(passport.recyclingCount, passport.recyclings, p)
    BY DEF PassportInv
  <2>. QED BY <2>1, <2>2, <2>4, <2>5 DEF Joined, Tallied
<1>. QED BY <1>1 DEF LifecycleTraced

LEMMA PassportBegins ==
    ASSUME PassportInit
    PROVE  PassportInv
<1>1. /\ DOMAIN passport = PassportFields /\ passport.cards = EmptyMap
      /\ passport.stages = EmptyMap /\ passport.repairs = EmptyMap
      /\ passport.repairCount = EmptyMap /\ passport.recyclings = EmptyMap
      /\ passport.recyclingCount = EmptyMap
  BY DEF PassportInit, PassportFields
<1>2. DOMAIN EmptyMap = {} BY DEF EmptyMap
<1>3. \A x : ListUnder(EmptyMap, x) = <<>> /\ GetOr(EmptyMap, x, 0) = 0
  BY <1>2 DEF ListUnder, GetOr
<1>4. Joined(<<>>) BY DEF Joined
<1>5. \A x : Tallied(EmptyMap, EmptyMap, x) BY <1>3, EmptyList DEF Tallied
<1>6. \A x : HistoryJoined(x) BY <1>1, <1>2, <1>3, <1>4, EmptyList DEF HistoryJoined
<1>. QED BY <1>1, <1>2, <1>5, <1>6 DEF PassportInv

-----------------------------------------------------------------------------
(* Sustainability: supply chain and ESG reports.                             *)

ChainFields ==
    {"brands", "brandCount", "skus", "skuCount", "lots", "certs", "labor", "facilities"}
LotFields == {"producer", "at", "custody", "is_verified"}

(* A counter that goes up with every registration covers what is registered. *)
CountCovers(n, f) == IsFiniteSet(DOMAIN f) /\ n \in Nat /\ n >= Cardinality(DOMAIN f)

(* A lot changes hands in the order of time, never in the future.            *)
HandedOn(custody) ==
    /\ IsList(custody)
    /\ \A k \in DOMAIN custody : custody[k].at \in Nat /\ custody[k].at <= clock
    /\ \A j, k \in DOMAIN custody : j < k => custody[j].at <= custody[k].at

ChainInv ==
    /\ DOMAIN chain = ChainFields
    /\ \A k \in DOMAIN chain.skus : k[1] \in DOMAIN chain.brands
    /\ CountCovers(chain.brandCount, chain.brands)
    /\ CountCovers(chain.skuCount, chain.skus)
    /\ \A lot \in DOMAIN chain.lots :
          DOMAIN chain.lots[lot] = LotFields /\ HandedOn(chain.lots[lot].custody)

LEMMA CountGrows ==
    ASSUME NEW D, IsFiniteSet(D), NEW n \in Nat, n >= Cardinality(D), NEW k, NEW E,
           E = D \cup {k}
    PROVE  IsFiniteSet(E) /\ n + 1 \in Nat /\ n + 1 >= Cardinality(E)
<1>1. /\ IsFiniteSet(E) /\ Cardinality(D) \in Nat
      /\ Cardinality(E) = Cardinality(D) \/ Cardinality(E) = Cardinality(D) + 1
  BY FS_AddElement, FS_CardinalityType
<1>. QED BY <1>1

(* A transfer now comes after the ones before.                               *)
LEMMA HandOver ==
    ASSUME NEW c, HandedOn(c), clock \in Nat, NEW e, e.at = clock
    PROVE  HandedOn(Append(c, e))
<1>1. PICK d : d = Append(c, e) OBVIOUS
<1>2. /\ IsList(d) /\ Len(c) \in Nat /\ DOMAIN c = 1..Len(c) /\ DOMAIN d = 1..(Len(c) + 1)
      /\ d[Len(c) + 1] = e /\ \A k \in 1..Len(c) : d[k] = c[k]
  BY <1>1, ListFacts DEF HandedOn
<1>3. ASSUME NEW k \in DOMAIN d PROVE d[k].at \in Nat /\ d[k].at <= clock
  BY <1>2 DEF HandedOn
<1>4. ASSUME NEW j \in DOMAIN d, NEW k \in DOMAIN d, j < k PROVE d[j].at <= d[k].at
  <2>1. CASE k = Len(c) + 1 BY <1>2, <1>3, <2>1
  <2>2. CASE k \in 1..Len(c)
    <3>1. j \in 1..Len(c) BY <1>2, <1>4, <2>2
    <3>2. c[j].at <= c[k].at BY <1>2, <1>4, <2>2, <3>1 DEF HandedOn
    <3>. QED BY <1>2, <2>2, <3>1, <3>2
  <2>. QED BY <1>2, <2>1, <2>2
<1>. QED BY <1>1, <1>2, <1>3, <1>4 DEF HandedOn

(* Every call of supply_chain.rs keeps the records sound.                    *)
LEMMA ChainStep ==
    ASSUME ChainInv, ChainNext, clock \in Nat, clock' = clock
    PROVE  ChainInv'
<1>0. DOMAIN chain = ChainFields BY DEF ChainInv
<1>1. ASSUME DOMAIN chain' = ChainFields, chain'.brands = chain.brands,
             chain'.brandCount = chain.brandCount, chain'.skus = chain.skus,
             chain'.skuCount = chain.skuCount,
             \A lot \in DOMAIN chain'.lots :
                DOMAIN chain'.lots[lot] = LotFields /\ HandedOn(chain'.lots[lot].custody)
      PROVE  ChainInv'
  BY <1>1 DEF ChainInv, HandedOn
<1>2. ASSUME DOMAIN chain' = ChainFields, chain'.lots = chain.lots,
             \A k \in DOMAIN chain'.skus : k[1] \in DOMAIN chain'.brands,
             CountCovers(chain'.brandCount, chain'.brands),
             CountCovers(chain'.skuCount, chain'.skus)
      PROVE  ChainInv'
  BY <1>2 DEF ChainInv, HandedOn
<1>3. ASSUME NEW b, NEW owner, register_brand(owner, b)
      PROVE  ChainInv'
  <2>1. PICK m : m = Put(chain.brands, b, owner) OBVIOUS
  <2>2. PICK n : n = chain.brandCount + 1 OBVIOUS
  <2>3. CountCovers(n, m) /\ DOMAIN m = DOMAIN chain.brands \cup {b}
    <3>1. PICK f, c : f = chain.brands /\ c = chain.brandCount OBVIOUS
    <3>2. CountCovers(c, f) BY <3>1 DEF ChainInv
    <3>3. n = c + 1 /\ m = Put(f, b, owner) BY <2>1, <2>2, <3>1
    <3>4. DOMAIN m = DOMAIN f \cup {b} BY <3>3 DEF Put
    <3>5. IsFiniteSet(DOMAIN m) /\ n \in Nat /\ n >= Cardinality(DOMAIN m)
      <4>1. PICK D, E : D = DOMAIN f /\ E = DOMAIN m OBVIOUS
      <4>2. IsFiniteSet(D) /\ c \in Nat /\ c >= Cardinality(D) /\ E = D \cup {b}
        BY <3>2, <3>4, <4>1 DEF CountCovers
      <4>3. IsFiniteSet(E) /\ c + 1 \in Nat /\ c + 1 >= Cardinality(E) BY <4>2, CountGrows
      <4>. QED BY <3>3, <4>1, <4>3
    <3>. QED BY <3>1, <3>4, <3>5 DEF CountCovers
  <2>4. chain' = [chain EXCEPT !.brands = m, !.brandCount = n]
    BY <1>3, <2>1, <2>2 DEF register_brand
  <2>5. /\ DOMAIN chain' = ChainFields /\ chain'.lots = chain.lots
        /\ chain'.skus = chain.skus /\ chain'.brands = m /\ chain'.brandCount = n
        /\ chain'.skuCount = chain.skuCount
    BY <1>0, <2>4 DEF ChainFields
  <2>. QED BY <1>2, <2>3, <2>5 DEF ChainInv
<1>4. ASSUME NEW b, NEW sku, register_product_sku(b, sku)
      PROVE  ChainInv'
  <2>1. PICK new : new = [provenance |-> {}, certifications |-> {}, labor |-> {},
                          environmental |-> {}, created |-> clock]
    OBVIOUS
  <2>2. PICK m : m = Put(chain.skus, <<b, sku>>, new) OBVIOUS
  <2>3. PICK n : n = chain.skuCount + 1 OBVIOUS
  <2>4. CountCovers(n, m) /\ DOMAIN m = DOMAIN chain.skus \cup {<<b, sku>>}
    <3>1. PICK f, c, k : f = chain.skus /\ c = chain.skuCount /\ k = <<b, sku>> OBVIOUS
    <3>2. CountCovers(c, f) BY <3>1 DEF ChainInv
    <3>3. n = c + 1 /\ m = Put(f, k, new) BY <2>2, <2>3, <3>1
    <3>4. DOMAIN m = DOMAIN f \cup {k} BY <3>3 DEF Put
    <3>5. IsFiniteSet(DOMAIN m) /\ n \in Nat /\ n >= Cardinality(DOMAIN m)
      <4>1. PICK D, E : D = DOMAIN f /\ E = DOMAIN m OBVIOUS
      <4>2. IsFiniteSet(D) /\ c \in Nat /\ c >= Cardinality(D) /\ E = D \cup {k}
        BY <3>2, <3>4, <4>1 DEF CountCovers
      <4>3. IsFiniteSet(E) /\ c + 1 \in Nat /\ c + 1 >= Cardinality(E) BY <4>2, CountGrows
      <4>. QED BY <3>3, <4>1, <4>3
    <3>. QED BY <3>1, <3>4, <3>5 DEF CountCovers
  <2>5. b \in DOMAIN chain.brands /\ chain' = [chain EXCEPT !.skus = m, !.skuCount = n]
    BY <1>4, <2>1, <2>2, <2>3 DEF register_product_sku
  <2>6. /\ DOMAIN chain' = ChainFields /\ chain'.lots = chain.lots
        /\ chain'.skus = m /\ chain'.brands = chain.brands /\ chain'.skuCount = n
        /\ chain'.brandCount = chain.brandCount
    BY <1>0, <2>5 DEF ChainFields
  <2>7. \A k \in DOMAIN m : k[1] \in DOMAIN chain.brands BY <2>4, <2>5 DEF ChainInv
  <2>. QED BY <1>2, <2>4, <2>6, <2>7 DEF ChainInv
<1>5. ASSUME NEW lot, NEW a, log_provenance_event(lot, a)
      PROVE  ChainInv'
  <2>1. PICK new : new = [producer |-> a, at |-> clock, custody |-> <<>>,
                          is_verified |-> FALSE]
    OBVIOUS
  <2>2. PICK m : m = Put(chain.lots, lot, new) OBVIOUS
  <2>3. chain' = [chain EXCEPT !.lots = m] BY <1>5, <2>1, <2>2 DEF log_provenance_event
  <2>4. /\ DOMAIN chain' = ChainFields /\ chain'.lots = m
        /\ chain'.brands = chain.brands /\ chain'.brandCount = chain.brandCount
        /\ chain'.skus = chain.skus /\ chain'.skuCount = chain.skuCount
    BY <1>0, <2>3 DEF ChainFields
  <2>5. DOMAIN new = LotFields /\ new.custody = <<>> BY <2>1 DEF LotFields
  <2>6. HandedOn(<<>>) BY EmptyList DEF HandedOn
  <2>7. \A x \in DOMAIN m : m[x] = new \/ (x \in DOMAIN chain.lots /\ m[x] = chain.lots[x])
    BY <2>2 DEF Put
  <2>8. \A x \in DOMAIN m : DOMAIN m[x] = LotFields /\ HandedOn(m[x].custody)
    BY <2>5, <2>6, <2>7 DEF ChainInv
  <2>. QED BY <1>1, <2>4, <2>8
<1>6. ASSUME NEW lot, NEW a, NEW to, log_custody_transfer(lot, a, to)
      PROVE  ChainInv'
  <2>1. PICK e : e = [from |-> a, to |-> to, at |-> clock] OBVIOUS
  <2>2. PICK c : c = Append(chain.lots[lot].custody, e) OBVIOUS
  <2>3. PICK new : new = [chain.lots[lot] EXCEPT !.custody = c] OBVIOUS
  <2>4. PICK m : m = [chain.lots EXCEPT ![lot] = new] OBVIOUS
  <2>5. lot \in DOMAIN chain.lots /\ chain' = [chain EXCEPT !.lots = m]
    BY <1>0, <1>6, <2>1, <2>2, <2>3, <2>4 DEF log_custody_transfer, ChainFields
  <2>6. /\ DOMAIN chain' = ChainFields /\ chain'.lots = m
        /\ chain'.brands = chain.brands /\ chain'.brandCount = chain.brandCount
        /\ chain'.skus = chain.skus /\ chain'.skuCount = chain.skuCount
    BY <1>0, <2>5 DEF ChainFields
  <2>7. DOMAIN chain.lots[lot] = LotFields /\ HandedOn(chain.lots[lot].custody)
    BY <2>5 DEF ChainInv
  <2>8. e.at = clock BY <2>1
  <2>9. HandedOn(c) BY <2>2, <2>7, <2>8, HandOver
  <2>10. DOMAIN new = LotFields /\ new.custody = c BY <2>3, <2>7 DEF LotFields
  <2>11. \A x \in DOMAIN m : m[x] = new \/ (x \in DOMAIN chain.lots /\ m[x] = chain.lots[x])
    BY <2>4
  <2>12. \A x \in DOMAIN m : DOMAIN m[x] = LotFields /\ HandedOn(m[x].custody)
    BY <2>9, <2>10, <2>11 DEF ChainInv
  <2>. QED BY <1>1, <2>6, <2>12
<1>7. ASSUME \/ \E c, a, d : log_certification(c, a, d)
             \/ \E f, ok : log_labor_conditions(f, ok)
             \/ \E f : log_environmental_impact(f)
      PROVE  ChainInv'
  <2>1. PICK m : \/ chain' = [chain EXCEPT !.certs = m]
                 \/ chain' = [chain EXCEPT !.labor = m]
                 \/ chain' = [chain EXCEPT !.facilities = m]
    BY <1>7 DEF log_certification, log_labor_conditions, log_environmental_impact
  <2>2. /\ DOMAIN chain' = ChainFields /\ chain'.lots = chain.lots
        /\ chain'.brands = chain.brands /\ chain'.brandCount = chain.brandCount
        /\ chain'.skus = chain.skus /\ chain'.skuCount = chain.skuCount
    BY <1>0, <2>1 DEF ChainFields
  <2>. QED BY <1>2, <2>2 DEF ChainInv
<1>. QED BY <1>3, <1>4, <1>5, <1>6, <1>7 DEF ChainNext

EsgFields == {"reports", "byOrg", "aligned", "investor", "kpis"}
ReportFields ==
    {"org", "period", "generated", "e_score", "s_score", "g_score", "esg_score", "aligned"}
Aligned == {"GRI", "SASB", "TCFD"}

(* A report belongs to the organization its digest names, and its score is   *)
(* the mean of the three.                                                    *)
ReportKept(id, r) ==
    /\ DOMAIN r = ReportFields /\ r.org = id[1]
    /\ r.e_score \in Nat /\ r.s_score \in Nat /\ r.g_score \in Nat
    /\ r.esg_score = (r.e_score + r.s_score + r.g_score) \div 3
    /\ r.aligned \in Seq(Aligned)

(* What is listed for an organization is a report kept, named for it.        *)
FiledFor(org, ids) ==
    IsList(ids) /\ \A k \in DOMAIN ids : ids[k] \in DOMAIN esg.reports /\ ids[k][1] = org

EsgInv ==
    /\ DOMAIN esg = EsgFields
    /\ \A id \in DOMAIN esg.reports : ReportKept(id, esg.reports[id])
    /\ \A org \in DOMAIN esg.byOrg : FiledFor(org, esg.byOrg[org])

(* The mean of three numbers lies between the least and the greatest.        *)
LEMMA MeanWithin ==
    ASSUME NEW a \in Nat, NEW b \in Nat, NEW c \in Nat
    PROVE  LET mean == (a + b + c) \div 3
           IN  Min({a, b, c}) <= mean /\ mean <= Max({a, b, c})
<1>1. PICK lo : lo = Min({a, b, c}) OBVIOUS
<1>2. PICK hi : hi = Max({a, b, c}) OBVIOUS
<1>3. \E x \in {a, b, c} : x <= a /\ x <= b /\ x <= c OBVIOUS
<1>4. \E x \in {a, b, c} : x >= a /\ x >= b /\ x >= c OBVIOUS
<1>5. lo \in {a, b, c} /\ lo <= a /\ lo <= b /\ lo <= c
  <2>1. \E x \in {a, b, c} : \A y \in {a, b, c} : x <= y BY <1>3
  <2>. QED BY <1>1, <2>1 DEF Min
<1>6. hi \in {a, b, c} /\ hi >= a /\ hi >= b /\ hi >= c
  <2>1. \E x \in {a, b, c} : \A y \in {a, b, c} : x >= y BY <1>4
  <2>. QED BY <1>2, <2>1 DEF Max
<1>7. lo \in Nat /\ hi \in Nat BY <1>5, <1>6
<1>8. lo <= (a + b + c) \div 3 /\ (a + b + c) \div 3 <= hi BY <1>5, <1>6, <1>7
<1>. QED BY <1>1, <1>2, <1>8

(* No report is covered beyond a hundred percent.                            *)
LEMMA CoverageWithin ==
    ASSUME NEW id, esg.reports[id].aligned \in Seq(Aligned)
    PROVE  check_reporting_standards(id) <= 100
<1>1. PICK s : s = esg.reports[id].aligned OBVIOUS
<1>2. PICK f : f = [k \in DOMAIN s |-> Coverage[s[k]]] OBVIOUS
<1>3. check_reporting_standards(id)
        = IF s = <<>> THEN 0 ELSE Total(f, DOMAIN s) \div Len(s)
  BY <1>1, <1>2 DEF check_reporting_standards
<1>4. s \in Seq(Aligned) /\ Len(s) \in Nat /\ DOMAIN s = 1..Len(s) BY <1>1
<1>5. CASE s = <<>> BY <1>3, <1>5
<1>6. CASE s # <<>>
  <2>1. PICK n \in Nat : n = Len(s) BY <1>4
  <2>2. n > 0 BY <1>4, <1>6, <2>1
  <2>3. \A x \in Aligned : Coverage[x] \in 0..100
    <3>1. Coverage["GRI"] = 95 /\ Coverage["SASB"] = 90 /\ Coverage["TCFD"] = 88
      BY DEF Coverage
    <3>2. 95 \in 0..100 /\ 90 \in 0..100 /\ 88 \in 0..100 OBVIOUS
    <3>3. Coverage["GRI"] \in 0..100 /\ Coverage["SASB"] \in 0..100
          /\ Coverage["TCFD"] \in 0..100
      BY <3>1, <3>2, Zenon
    <3>. QED BY <3>3, Zenon DEF Aligned
  <2>4. DOMAIN s = 1..n /\ \A k \in 1..n : s[k] \in Aligned BY <1>4, <2>1
  <2>5. \A k \in 1..n : f[k] \in 0..100 BY <1>2, <2>3, <2>4
  <2>6. IsFiniteSet(1..n) /\ Cardinality(1..n) = n
    <3>1. 1 \in Int /\ n \in Int OBVIOUS
    <3>2. /\ IsFiniteSet(1..n)
          /\ Cardinality(1..n) = IF 1 > n THEN 0 ELSE n - 1 + 1
      BY <3>1, FS_Interval
    <3>. QED BY <3>2, <2>2
  <2>7. PICK t : t = Total(f, 1..n) OBVIOUS
  <2>8. t \in Nat /\ t <= 100 * n
    <3>1. 100 \in Nat OBVIOUS
    <3>2. Total(f, 1..n) \in Nat /\ Total(f, 1..n) <= 100 * Cardinality(1..n)
      BY <2>5, <2>6, <3>1, TotalBound
    <3>. QED BY <2>6, <2>7, <3>2
  <2>9. t \div n <= 100
    <3>1. PICK q : q = t \div n OBVIOUS
    <3>2. q \in Int /\ n * q <= t BY <2>2, <2>8, <3>1, SMT
    <3>3. q <= 100
      <4>1. ASSUME q >= 101 PROVE FALSE
        <5>1. n * q >= n * 101 BY <2>2, <3>2, <4>1, SMT
        <5>. QED BY <2>2, <2>8, <3>2, <5>1
      <4>. QED BY <3>2, <4>1
    <3>. QED BY <3>1, <3>3
  <2>. QED BY <1>3, <1>6, <2>1, <2>4, <2>7, <2>9
<1>. QED BY <1>5, <1>6

(* Every call of esg_reporting.rs keeps its reports.                         *)
LEMMA EsgStep ==
    ASSUME EsgInv, EsgNext
    PROVE  EsgInv'
<1>0. /\ DOMAIN esg = EsgFields
      /\ \A id \in DOMAIN esg.reports : ReportKept(id, esg.reports[id])
      /\ \A org \in DOMAIN esg.byOrg : FiledFor(org, esg.byOrg[org])
  BY DEF EsgInv
<1>1. ASSUME DOMAIN esg' = EsgFields, DOMAIN esg.reports \subseteq DOMAIN esg'.reports,
             \A id \in DOMAIN esg'.reports : ReportKept(id, esg'.reports[id]),
             esg'.byOrg = esg.byOrg
      PROVE  EsgInv'
  BY <1>0, <1>1 DEF EsgInv, FiledFor
<1>2. ASSUME NEW org, NEW v \in Amount, generate_esg_report(org, v, v, v, v)
      PROVE  EsgInv'
  <2>1. PICK id : id = <<org, v, clock>> OBVIOUS
  <2>2. PICK e : e = (v + EfficiencyScore(v)) \div 2 OBVIOUS
  <2>3. PICK s : s = SocialScore(v) OBVIOUS
  <2>4. PICK g : g = GovernanceScore(v) OBVIOUS
  <2>5. e \in Nat /\ s \in Nat /\ g \in Nat
    <3>1. v \in Nat BY PlatformAssumption
    <3>. QED BY <2>2, <2>3, <2>4, <3>1 DEF EfficiencyScore, SocialScore, GovernanceScore
  <2>6. PICK r : r = [org |-> org, period |-> v, generated |-> clock,
                      e_score |-> e, s_score |-> s, g_score |-> g,
                      esg_score |-> (e + s + g) \div 3, aligned |-> <<>>]
    OBVIOUS
  <2>7. PICK reports : reports = Put(esg.reports, id, r) OBVIOUS
  <2>8. PICK lists : lists = PushTo(esg.byOrg, org, id) OBVIOUS
  <2>9. esg' = [esg EXCEPT !.reports = reports, !.byOrg = lists]
    BY <1>2, <2>1, <2>2, <2>3, <2>4, <2>6, <2>7, <2>8 DEF generate_esg_report
  <2>10. DOMAIN esg' = EsgFields /\ esg'.reports = reports /\ esg'.byOrg = lists
    BY <1>0, <2>9 DEF EsgFields
  <2>11. ReportKept(id, r)
    <3>1. /\ DOMAIN r = ReportFields /\ r.org = org /\ r.e_score = e /\ r.s_score = s
          /\ r.g_score = g /\ r.esg_score = (e + s + g) \div 3 /\ r.aligned = <<>>
      BY <2>6 DEF ReportFields
    <3>2. id[1] = org /\ <<>> \in Seq(Aligned) BY <2>1
    <3>. QED BY <2>5, <3>1, <3>2 DEF ReportKept
  <2>12. /\ DOMAIN reports = DOMAIN esg.reports \cup {id} /\ reports[id] = r
         /\ \A x \in DOMAIN esg.reports : x # id => reports[x] = esg.reports[x]
    BY <2>7 DEF Put
  <2>13. \A x \in DOMAIN reports : ReportKept(x, reports[x]) BY <1>0, <2>11, <2>12
  <2>14. ASSUME NEW o \in DOMAIN lists
         PROVE  /\ IsList(lists[o])
                /\ \A k \in DOMAIN lists[o] : lists[o][k] \in DOMAIN reports /\ lists[o][k][1] = o
    <3>1. CASE o = org
      <4>1. PICK old : old = ListUnder(esg.byOrg, org) OBVIOUS
      <4>2. PICK new : new = Append(old, id) OBVIOUS
      <4>3. lists[o] = new BY <2>8, <3>1, <4>1, <4>2 DEF PushTo, Put, ListUnder
      <4>4. FiledFor(org, old)
        <5>1. CASE org \in DOMAIN esg.byOrg BY <1>0, <4>1, <5>1 DEF ListUnder, GetOr
        <5>2. CASE org \notin DOMAIN esg.byOrg
          BY <4>1, <5>2, EmptyList DEF ListUnder, GetOr, FiledFor
        <5>. QED BY <5>1, <5>2
      <4>5. /\ IsList(new) /\ Len(old) \in Nat /\ DOMAIN old = 1..Len(old)
            /\ DOMAIN new = 1..(Len(old) + 1) /\ new[Len(old) + 1] = id
            /\ \A k \in 1..Len(old) : new[k] = old[k]
        BY <4>2, <4>4, ListFacts DEF FiledFor
      <4>6. id[1] = org BY <2>1
      <4>7. ASSUME NEW k \in DOMAIN new PROVE new[k] \in DOMAIN reports /\ new[k][1] = org
        <5>1. CASE k \in 1..Len(old) BY <2>12, <4>4, <4>5, <5>1 DEF FiledFor
        <5>2. CASE k = Len(old) + 1 BY <2>12, <4>5, <4>6, <5>2
        <5>. QED BY <4>5, <5>1, <5>2
      <4>. QED BY <3>1, <4>3, <4>5, <4>7
    <3>2. CASE o # org
      <4>1. o \in DOMAIN esg.byOrg /\ lists[o] = esg.byOrg[o] BY <2>8, <2>14, <3>2 DEF PushTo, Put
      <4>. QED BY <1>0, <2>12, <4>1 DEF FiledFor
    <3>. QED BY <3>1, <3>2
  <2>. QED BY <2>10, <2>13, <2>14 DEF EsgInv, FiledFor
<1>3. ASSUME NEW id \in DOMAIN esg.reports, NEW org, NEW framework \in Aligned,
             Align(id, org, framework)
      PROVE  EsgInv'
  <2>1. PICK r : r = esg.reports[id] OBVIOUS
  <2>2. PICK al : al = Append(r.aligned, framework) OBVIOUS
  <2>3. PICK q : q = [r EXCEPT !.aligned = al] OBVIOUS
  <2>4. PICK reports : reports = [esg.reports EXCEPT ![id] = q] OBVIOUS
  <2>5. esg' = [esg EXCEPT !.reports = reports, !.aligned = esg.aligned \cup {<<org, framework>>}]
    BY <1>0, <1>3, <2>1, <2>2, <2>3, <2>4 DEF Align, EsgFields
  <2>6. DOMAIN esg' = EsgFields /\ esg'.reports = reports /\ esg'.byOrg = esg.byOrg
    BY <1>0, <2>5 DEF EsgFields
  <2>7. ReportKept(id, q)
    <3>1. ReportKept(id, r) BY <1>0, <2>1
    <3>2. al \in Seq(Aligned) BY <1>3, <2>2, <3>1 DEF ReportKept
    <3>3. /\ DOMAIN q = ReportFields /\ q.org = r.org /\ q.e_score = r.e_score
          /\ q.s_score = r.s_score /\ q.g_score = r.g_score /\ q.esg_score = r.esg_score
          /\ q.aligned = al
      BY <2>3, <3>1 DEF ReportKept, ReportFields
    <3>. QED BY <3>1, <3>2, <3>3 DEF ReportKept
  <2>8. /\ DOMAIN reports = DOMAIN esg.reports
        /\ \A x \in DOMAIN reports : ReportKept(x, reports[x])
    BY <1>0, <2>4, <2>7
  <2>. QED BY <1>1, <2>6, <2>8
<1>4. ASSUME NEW id \in DOMAIN esg.reports, generate_investor_report(id)
      PROVE  EsgInv'
  <2>1. DOMAIN esg' = EsgFields /\ esg'.reports = esg.reports /\ esg'.byOrg = esg.byOrg
    BY <1>0, <1>4 DEF generate_investor_report, EsgFields
  <2>. QED BY <1>0, <1>1, <2>1
<1>5. ASSUME NEW org, NEW v, track_kpis(org, v)
      PROVE  EsgInv'
  <2>1. DOMAIN esg' = EsgFields /\ esg'.reports = esg.reports /\ esg'.byOrg = esg.byOrg
    BY <1>0, <1>5 DEF track_kpis, EsgFields
  <2>. QED BY <1>0, <1>1, <2>1
<1>6. ASSUME NEW id \in DOMAIN esg.reports, NEW org,
             align_to_gri(id, org) \/ align_to_sasb(id, org) \/ align_to_tcfd(id, org)
      PROVE  EsgInv'
  BY <1>3, <1>6 DEF align_to_gri, align_to_sasb, align_to_tcfd, Aligned
<1>. QED BY <1>2, <1>4, <1>5, <1>6 DEF EsgNext

LEMMA SupplyInvSound ==
    ASSUME ChainInv, EsgInv
    PROVE  SupplyRecordsSound
<1>1. \A org \in DOMAIN esg.byOrg : \A k \in DOMAIN esg.byOrg[org] :
         esg.reports[esg.byOrg[org][k]].org = org
  BY DEF EsgInv, FiledFor, ReportKept
<1>2. ASSUME NEW id \in DOMAIN esg.reports
      PROVE  LET r == esg.reports[id]
                 scores == {r.e_score, r.s_score, r.g_score}
             IN  /\ Min(scores) <= r.esg_score /\ r.esg_score <= Max(scores)
                 /\ check_reporting_standards(id) <= 100
  <2>1. PICK r : r = esg.reports[id] OBVIOUS
  <2>2. ReportKept(id, r) BY <2>1 DEF EsgInv
  <2>3. check_reporting_standards(id) <= 100 BY <2>1, <2>2, CoverageWithin DEF ReportKept
  <2>4. PICK a \in Nat, b \in Nat, c \in Nat : a = r.e_score /\ b = r.s_score /\ c = r.g_score
    BY <2>2 DEF ReportKept
  <2>5. r.esg_score = (a + b + c) \div 3 BY <2>2, <2>4 DEF ReportKept
  <2>6. Min({a, b, c}) <= r.esg_score /\ r.esg_score <= Max({a, b, c}) BY <2>5, MeanWithin
  <2>. QED BY <2>1, <2>3, <2>4, <2>6
<1>3. /\ \A k \in DOMAIN chain.skus : k[1] \in DOMAIN chain.brands
      /\ chain.brandCount >= Cardinality(DOMAIN chain.brands)
      /\ chain.skuCount >= Cardinality(DOMAIN chain.skus)
  BY DEF ChainInv, CountCovers
<1>4. \A lot \in DOMAIN chain.lots :
        LET custody == chain.lots[lot].custody
        IN  \A j, k \in DOMAIN custody : j < k => custody[j].at <= custody[k].at
  BY DEF ChainInv, HandedOn
<1>. QED BY <1>1, <1>2, <1>3, <1>4 DEF SupplyRecordsSound

LEMMA SupplyBegins ==
    ASSUME ChainInit, EsgInit
    PROVE  ChainInv /\ EsgInv
<1>1. DOMAIN EmptyMap = {} BY DEF EmptyMap
<1>2. /\ DOMAIN chain = ChainFields /\ chain.brands = EmptyMap /\ chain.skus = EmptyMap
      /\ chain.lots = EmptyMap /\ chain.brandCount = 0 /\ chain.skuCount = 0
  BY DEF ChainInit, ChainFields
<1>3. CountCovers(0, EmptyMap) BY <1>1, FS_EmptySet DEF CountCovers
<1>4. DOMAIN esg = EsgFields /\ esg.reports = EmptyMap /\ esg.byOrg = EmptyMap
  BY DEF EsgInit, EsgFields
<1>. QED BY <1>1, <1>2, <1>3, <1>4 DEF ChainInv, EsgInv

(* In every behaviour of the platform the sustainability records are sound:  *)
(* the published totals cover every retirement of carbon credits however     *)
(* credits are issued, verified, sold and retired in between, every product's*)
(* history joins up to the stage of its passport, and every product, lot and *)
(* report leads to the brand, transfers and organization it belongs to.      *)
THEOREM SustainabilityStaysSound == PlatformSpec => []SustainabilitySound
<1>. DEFINE Inv == CarbonInv /\ PassportInv /\ ChainInv /\ EsgInv /\ clock \in Nat
<1>1. PlatformInit => Inv
  <2>. SUFFICES ASSUME PlatformInit PROVE Inv OBVIOUS
  <2>1. CarbonInit /\ PassportInit /\ ChainInit /\ EsgInit /\ clock \in Nat
    BY DEF PlatformInit
  <2>. QED BY <2>1, CarbonBegins, PassportBegins, SupplyBegins
<1>2. Inv /\ [PlatformNext]_platformVars => Inv'
  <2>. SUFFICES ASSUME Inv, [PlatformNext]_platformVars PROVE Inv' OBVIOUS
  <2>1. /\ carbon' = carbon \/ CarbonNext
        /\ passport' = passport \/ PassportNext
        /\ chain' = chain \/ (ChainNext /\ clock' = clock)
        /\ esg' = esg \/ EsgNext
        /\ clock' \in Nat /\ clock <= clock'
    BY PartSteps
  <2>2. CarbonInv'
    <3>1. CASE carbon' = carbon
      BY <3>1 DEF CarbonInv, CreditKept, TotalsCover, IssuesListed, ListedFor, RetiredOf, TonnesOf
    <3>. QED BY <2>1, <3>1, CarbonStep
  <2>3. PassportInv'
    <3>1. CASE passport' = passport BY <3>1 DEF PassportInv, HistoryJoined
    <3>. QED BY <2>1, <3>1, PassportStep
  <2>4. ChainInv'
    <3>1. CASE chain' = chain
      <4>1. ASSUME NEW lot \in DOMAIN chain.lots PROVE HandedOn(chain.lots[lot].custody)'
        <5>1. HandedOn(chain.lots[lot].custody) BY DEF ChainInv
        <5>. QED BY <2>1, <3>1, <5>1 DEF HandedOn
      <4>. QED BY <3>1, <4>1 DEF ChainInv
    <3>. QED BY <2>1, <3>1, ChainStep
  <2>5. EsgInv'
    <3>1. CASE esg' = esg BY <3>1 DEF EsgInv, FiledFor
    <3>. QED BY <2>1, <3>1, EsgStep
  <2>. QED BY <2>1, <2>2, <2>3, <2>4, <2>5
<1>3. Inv => SustainabilitySound
  BY CarbonInvCovers, PassportInvTraces, SupplyInvSound DEF SustainabilitySound
<1>. QED BY <1>1, <1>2, <1>3, PTL DEF PlatformSpec

-----------------------------------------------------------------------------
(* Operations: regions and failovers.                                        *)

RegionsFields == {"nodes", "listed", "syncs", "failovers", "latest", "config"}
NodeFields == {"is_primary", "health_status", "last_heartbeat", "processed_seq"}

(* A configuration names a registered primary, promoted by the latest        *)
(* failover.                                                                 *)
Confirmed(c) ==
    /\ c.primary_region \in DOMAIN regions.nodes
    /\ regions.nodes[c.primary_region].is_primary = TRUE
    /\ \E f \in regions.latest :
          /\ c = [primary_region |-> f.new_primary, current_fencing_token |-> f.fencing_token]
          /\ regions.failovers[f.id] = f

(* A list of all the keys of a table, each once.                             *)
ListsKeys(list, table) ==
    /\ IsList(list)
    /\ \A j, k \in DOMAIN list : list[j] = list[k] => j = k
    /\ \A x : x \in DOMAIN table <=> \E k \in DOMAIN list : list[k] = x

RegionsInv ==
    /\ DOMAIN regions = RegionsFields
    /\ \A r \in DOMAIN regions.nodes : DOMAIN regions.nodes[r] = NodeFields
    /\ \A c \in regions.config : Confirmed(c)
    /\ ListsKeys(regions.listed, regions.nodes)

(* A new key is appended to the list of keys.                                *)
LEMMA KeyListed ==
    ASSUME NEW list, NEW table, ListsKeys(list, table), NEW x, x \notin DOMAIN table, NEW v,
           NEW l, l = Append(list, x), NEW t, t = Put(table, x, v)
    PROVE  ListsKeys(l, t)
<1>1. /\ IsList(l) /\ Len(list) \in Nat /\ DOMAIN list = 1..Len(list)
      /\ DOMAIN l = 1..(Len(list) + 1) /\ l[Len(list) + 1] = x
      /\ \A k \in 1..Len(list) : l[k] = list[k]
  BY ListFacts DEF ListsKeys
<1>2. DOMAIN t = DOMAIN table \cup {x} BY DEF Put
<1>3. \A k \in 1..Len(list) : list[k] # x BY <1>1 DEF ListsKeys
<1>4. ASSUME NEW j \in DOMAIN l, NEW k \in DOMAIN l, l[j] = l[k]
      PROVE  j = k
  <2>1. CASE j \in 1..Len(list) /\ k \in 1..Len(list) BY <1>1, <1>4, <2>1 DEF ListsKeys
  <2>2. CASE j = Len(list) + 1 /\ k \in 1..Len(list) BY <1>1, <1>3, <1>4, <2>2
  <2>3. CASE k = Len(list) + 1 /\ j \in 1..Len(list) BY <1>1, <1>3, <1>4, <2>3
  <2>4. CASE k = Len(list) + 1 /\ j = Len(list) + 1 BY <2>4
  <2>. QED BY <1>1, <2>1, <2>2, <2>3, <2>4
<1>5. ASSUME NEW y
      PROVE  y \in DOMAIN t <=> \E k \in DOMAIN l : l[k] = y
  <2>1. CASE y = x
    <3>1. Len(list) + 1 \in DOMAIN l BY <1>1
    <3>. QED BY <1>1, <1>2, <2>1, <3>1
  <2>2. CASE y # x
    <3>1. y \in DOMAIN table <=> \E k \in DOMAIN list : list[k] = y BY DEF ListsKeys
    <3>2. ASSUME NEW k \in DOMAIN list, list[k] = y PROVE k \in DOMAIN l /\ l[k] = y
      BY <1>1, <3>2
    <3>3. ASSUME NEW k \in DOMAIN l, l[k] = y PROVE k \in DOMAIN list /\ list[k] = y
      BY <1>1, <2>2, <3>3
    <3>. QED BY <1>2, <2>2, <3>1, <3>2, <3>3
  <2>. QED BY <2>1, <2>2
<1>. QED BY <1>1, <1>4, <1>5 DEF ListsKeys

(* Every call of multi_region.rs keeps the primary confirmed.                *)
LEMMA RegionsStep ==
    ASSUME RegionsInv, RegionsNext
    PROVE  RegionsInv'
<1>0. DOMAIN regions = RegionsFields BY DEF RegionsInv
<1>1. ASSUME NEW r, NEW p, register_region(r, p)
      PROVE  RegionsInv'
  <2>1. PICK n : n = [is_primary |-> p, health_status |-> "Healthy",
                      last_heartbeat |-> clock, processed_seq |-> 0]
    OBVIOUS
  <2>2. PICK m : m = Put(regions.nodes, r, n) OBVIOUS
  <2>3. PICK l : l = Append(regions.listed, r) OBVIOUS
  <2>4. r \notin DOMAIN regions.nodes /\ regions' = [regions EXCEPT !.nodes = m, !.listed = l]
    BY <1>1, <2>1, <2>2, <2>3 DEF register_region
  <2>5. /\ DOMAIN regions' = RegionsFields /\ regions'.nodes = m /\ regions'.listed = l
        /\ regions'.config = regions.config /\ regions'.latest = regions.latest
        /\ regions'.failovers = regions.failovers
    BY <1>0, <2>4 DEF RegionsFields
  <2>6. DOMAIN n = NodeFields BY <2>1 DEF NodeFields
  <2>7. /\ DOMAIN m = DOMAIN regions.nodes \cup {r} /\ m[r] = n
        /\ \A x \in DOMAIN regions.nodes : m[x] = regions.nodes[x]
    BY <2>2, <2>4 DEF Put
  <2>8. \A x \in DOMAIN m : DOMAIN m[x] = NodeFields BY <2>6, <2>7 DEF RegionsInv
  <2>9. ASSUME NEW c \in regions.config PROVE Confirmed(c)'
    <3>1. Confirmed(c) BY DEF RegionsInv
    <3>. QED BY <2>5, <2>7, <3>1 DEF Confirmed
  <2>10. ListsKeys(l, m)
    <3>1. PICK list, table : list = regions.listed /\ table = regions.nodes OBVIOUS
    <3>2. ListsKeys(list, table) BY <3>1 DEF RegionsInv
    <3>. QED BY <2>2, <2>3, <2>4, <3>1, <3>2, KeyListed
  <2>. QED BY <2>5, <2>8, <2>9, <2>10 DEF RegionsInv
<1>2. ASSUME NEW r, NEW s, NEW h, heartbeat_region(r, s, h)
      PROVE  RegionsInv'
  <2>1. PICK n : n = [regions.nodes[r] EXCEPT !.last_heartbeat = clock, !.processed_seq = s,
                                              !.health_status = h]
    OBVIOUS
  <2>2. PICK m : m = [regions.nodes EXCEPT ![r] = n] OBVIOUS
  <2>3. r \in DOMAIN regions.nodes /\ regions' = [regions EXCEPT !.nodes = m]
    BY <1>0, <1>2, <2>1, <2>2 DEF heartbeat_region, RegionsFields
  <2>4. /\ DOMAIN regions' = RegionsFields /\ regions'.nodes = m
        /\ regions'.listed = regions.listed
        /\ regions'.config = regions.config /\ regions'.latest = regions.latest
        /\ regions'.failovers = regions.failovers
    BY <1>0, <2>3 DEF RegionsFields
  <2>5. DOMAIN n = NodeFields /\ n.is_primary = regions.nodes[r].is_primary
    BY <2>1, <2>3 DEF NodeFields, RegionsInv
  <2>6. /\ DOMAIN m = DOMAIN regions.nodes
        /\ \A x \in DOMAIN m : /\ DOMAIN m[x] = NodeFields
                               /\ m[x].is_primary = regions.nodes[x].is_primary
    BY <2>2, <2>5 DEF RegionsInv
  <2>7. ASSUME NEW c \in regions.config PROVE Confirmed(c)'
    <3>1. Confirmed(c) BY DEF RegionsInv
    <3>. QED BY <2>4, <2>6, <3>1 DEF Confirmed
  <2>. QED BY <2>4, <2>6, <2>7 DEF RegionsInv, ListsKeys
<1>3. ASSUME NEW s, NEW t, NEW n, record_cross_region_sync(s, t, n)
      PROVE  RegionsInv'
  <2>1. /\ DOMAIN regions' = RegionsFields /\ regions'.nodes = regions.nodes
        /\ regions'.listed = regions.listed
        /\ regions'.config = regions.config /\ regions'.latest = regions.latest
        /\ regions'.failovers = regions.failovers
    BY <1>0, <1>3 DEF record_cross_region_sync, RegionsFields
  <2>. QED BY <2>1 DEF RegionsInv, Confirmed
<1>4. ASSUME NEW id, NEW old, NEW new, NEW token, initiate_failover(id, old, new, token)
      PROVE  RegionsInv'
  <2>1. PICK e : e = [id |-> id, old_primary |-> old, new_primary |-> new,
                      fencing_token |-> token, completed_at |-> clock]
    OBVIOUS
  <2>2. PICK m : m = Promoted(regions.nodes, old, new) OBVIOUS
  <2>3. PICK fs : fs = Put(regions.failovers, id, e) OBVIOUS
  <2>4. PICK c : c = [primary_region |-> new, current_fencing_token |-> token] OBVIOUS
  <2>5. /\ new \in DOMAIN regions.nodes
        /\ regions' = [regions EXCEPT !.nodes = m, !.failovers = fs, !.latest = Some(e),
                                      !.config = Some(c)]
    BY <1>4, <2>1, <2>2, <2>3, <2>4 DEF initiate_failover
  <2>6. /\ DOMAIN regions' = RegionsFields /\ regions'.nodes = m
        /\ regions'.listed = regions.listed /\ regions'.config = {c}
        /\ regions'.latest = {e} /\ regions'.failovers = fs
    BY <1>0, <2>5 DEF RegionsFields, Some
  <2>7. PICK n : n = [regions.nodes[new] EXCEPT !.is_primary = TRUE] OBVIOUS
  <2>8. DOMAIN n = NodeFields /\ n.is_primary = TRUE
    BY <2>5, <2>7 DEF NodeFields, RegionsInv
  <2>9. PICK d : d = Drained(regions.nodes, old) OBVIOUS
  <2>10. DOMAIN d = DOMAIN regions.nodes /\ \A x \in DOMAIN d : DOMAIN d[x] = NodeFields
    <3>1. CASE old \notin DOMAIN regions.nodes BY <2>9, <3>1 DEF Drained, RegionsInv
    <3>2. CASE old \in DOMAIN regions.nodes
      <4>1. PICK w : w = [regions.nodes[old] EXCEPT !.is_primary = FALSE,
                                                    !.health_status = "Draining"]
        OBVIOUS
      <4>2. DOMAIN w = NodeFields BY <3>2, <4>1 DEF NodeFields, RegionsInv
      <4>3. d = [regions.nodes EXCEPT ![old] = w] BY <2>9, <3>2, <4>1 DEF Drained
      <4>. QED BY <3>2, <4>2, <4>3 DEF RegionsInv
    <3>. QED BY <3>1, <3>2
  <2>11. m = Put(d, new, n) BY <2>2, <2>7, <2>9 DEF Promoted
  <2>12. /\ DOMAIN m = DOMAIN regions.nodes /\ m[new] = n
         /\ \A x \in DOMAIN m : DOMAIN m[x] = NodeFields
    BY <2>5, <2>8, <2>10, <2>11 DEF Put
  <2>13. Confirmed(c)'
    <3>1. c.primary_region = new /\ m[new].is_primary = TRUE BY <2>4, <2>8, <2>12
    <3>2. /\ e.id = id /\ e.new_primary = new /\ e.fencing_token = token /\ fs[id] = e
      BY <2>1, <2>3 DEF Put
    <3>. QED BY <2>4, <2>5, <2>6, <2>12, <3>1, <3>2 DEF Confirmed
  <2>. QED BY <2>6, <2>12, <2>13 DEF RegionsInv, ListsKeys
<1>. QED BY <1>1, <1>2, <1>3, <1>4 DEF RegionsNext

LEMMA RegionsInvConfirms ==
    ASSUME RegionsInv
    PROVE  PrimaryConfirmed
<1>1. IsInjective(regions.listed) BY DEF RegionsInv, ListsKeys, IsInjective
<1>2. DOMAIN regions.nodes = {regions.listed[k] : k \in DOMAIN regions.listed}
  BY DEF RegionsInv, ListsKeys
<1>3. \A c \in regions.config : Confirmed(c) BY DEF RegionsInv
<1>. QED BY <1>1, <1>2, <1>3 DEF PrimaryConfirmed, Confirmed

LEMMA RegionsBegin ==
    ASSUME RegionsInit
    PROVE  RegionsInv
<1>1. /\ DOMAIN regions = RegionsFields /\ regions.nodes = EmptyMap
      /\ regions.listed = <<>> /\ regions.config = {}
  BY DEF RegionsInit, RegionsFields, None
<1>2. DOMAIN EmptyMap = {} BY DEF EmptyMap
<1>3. ListsKeys(<<>>, EmptyMap) BY <1>2, EmptyList DEF ListsKeys
<1>. QED BY <1>1, <1>2, <1>3 DEF RegionsInv

-----------------------------------------------------------------------------
(* Operations: runbooks.                                                     *)

RunbookFields == {"execs", "steps", "validations", "total", "settings"}
ExecFields == {"initiated_by", "status", "completed_steps", "dry_run"}
SettingFields == {"paused", "cap", "schema", "bridge"}

PassedSteps(id, steps) == {k \in DOMAIN steps : k[1] = id /\ steps[k] = "Passed"}

(* One run: counted for each step that passed, stopped by one that failed.   *)
RunKept(id, run, steps) ==
    /\ DOMAIN run = ExecFields
    /\ run.completed_steps \in Nat
    /\ run.completed_steps >= Cardinality(PassedSteps(id, steps))
    /\ \A k \in DOMAIN steps : k[1] = id /\ steps[k] = "Failed" => run.status # "Executing"

RunbookInv ==
    /\ DOMAIN runbook = RunbookFields
    /\ DOMAIN runbook.settings = SettingFields
    /\ runbook.settings.schema \in Nat /\ runbook.settings.schema >= 1
    /\ IsFiniteSet(DOMAIN runbook.steps)
    /\ \A k \in DOMAIN runbook.steps : k[1] \in DOMAIN runbook.execs
    /\ \A id \in DOMAIN runbook.execs : RunKept(id, runbook.execs[id], runbook.steps)
    /\ IsFiniteSet(DOMAIN runbook.execs)
    /\ runbook.total = Cardinality(DOMAIN runbook.execs)
    /\ \/ runbook.settings = Defaults
       \/ \E id \in DOMAIN runbook.execs : runbook.execs[id].dry_run = FALSE

(* A step recorded again or for the first time.                              *)
LEMMA StepsPassed ==
    ASSUME NEW steps, IsFiniteSet(DOMAIN steps), NEW k, NEW status,
           NEW after, after = Put(steps, k, status), NEW id
    PROVE  /\ IsFiniteSet(PassedSteps(id, after)) /\ IsFiniteSet(PassedSteps(id, steps))
           /\ Cardinality(PassedSteps(id, after)) \in Nat
           /\ Cardinality(PassedSteps(id, steps)) \in Nat
           /\ Cardinality(PassedSteps(id, after)) <= Cardinality(PassedSteps(id, steps)) + 1
           /\ k[1] # id \/ status # "Passed" =>
                 Cardinality(PassedSteps(id, after)) <= Cardinality(PassedSteps(id, steps))
<1>1. PICK A, B : A = PassedSteps(id, after) /\ B = PassedSteps(id, steps) OBVIOUS
<1>2. B \subseteq DOMAIN steps BY <1>1 DEF PassedSteps
<1>3. IsFiniteSet(B) BY <1>2, FS_Subset
<1>4. A \subseteq B \cup {k} BY <1>1 DEF PassedSteps, Put
<1>5. k[1] # id \/ status # "Passed" => A \subseteq B BY <1>1 DEF PassedSteps, Put
<1>6. PICK C : C = B \cup {k} OBVIOUS
<1>7. /\ IsFiniteSet(C) /\ Cardinality(B) \in Nat
      /\ Cardinality(C) = Cardinality(B) \/ Cardinality(C) = Cardinality(B) + 1
  BY <1>3, <1>6, FS_AddElement, FS_CardinalityType
<1>8. IsFiniteSet(A) /\ Cardinality(A) \in Nat /\ Cardinality(A) <= Cardinality(C)
  <2>1. A \subseteq C BY <1>4, <1>6
  <2>. QED BY <1>7, <2>1, FS_Subset, FS_CardinalityType
<1>9. k[1] # id \/ status # "Passed" => Cardinality(A) <= Cardinality(B)
  BY <1>3, <1>5, FS_Subset
<1>. QED BY <1>1, <1>3, <1>7, <1>8, <1>9

(* Every call of runbook_automation.rs keeps rehearsals harmless.            *)
LEMMA RunbookStep ==
    ASSUME RunbookInv, RunbookNext
    PROVE  RunbookInv'
<1>0. /\ DOMAIN runbook = RunbookFields
      /\ DOMAIN runbook.settings = SettingFields
      /\ runbook.settings.schema \in Nat /\ runbook.settings.schema >= 1
      /\ IsFiniteSet(DOMAIN runbook.steps)
      /\ \A k \in DOMAIN runbook.steps : k[1] \in DOMAIN runbook.execs
      /\ \A id \in DOMAIN runbook.execs : RunKept(id, runbook.execs[id], runbook.steps)
      /\ IsFiniteSet(DOMAIN runbook.execs)
      /\ runbook.total = Cardinality(DOMAIN runbook.execs)
      /\ \/ runbook.settings = Defaults
         \/ \E id \in DOMAIN runbook.execs : runbook.execs[id].dry_run = FALSE
  BY DEF RunbookInv
<1>1. ASSUME NEW a, NEW id, NEW dry, start_execution(a, id, dry)
      PROVE  RunbookInv'
  <2>1. PICK r : r = [initiated_by |-> a, status |-> "Executing", completed_steps |-> 0,
                      dry_run |-> dry]
    OBVIOUS
  <2>2. PICK m : m = Put(runbook.execs, id, r) OBVIOUS
  <2>3. PICK n : n = runbook.total + 1 OBVIOUS
  <2>4. /\ id \notin DOMAIN runbook.execs
        /\ runbook' = [runbook EXCEPT !.execs = m, !.total = n]
    BY <1>1, <2>1, <2>2, <2>3 DEF start_execution
  <2>5. /\ DOMAIN runbook' = RunbookFields /\ runbook'.execs = m /\ runbook'.total = n
        /\ runbook'.steps = runbook.steps /\ runbook'.settings = runbook.settings
    BY <1>0, <2>4 DEF RunbookFields
  <2>6. /\ DOMAIN m = DOMAIN runbook.execs \cup {id} /\ m[id] = r
        /\ \A x \in DOMAIN runbook.execs : m[x] = runbook.execs[x]
    BY <2>2, <2>4 DEF Put
  <2>7. DOMAIN r = ExecFields /\ r.completed_steps = 0 BY <2>1 DEF ExecFields
  <2>8. \A k \in DOMAIN runbook.steps : k[1] # id BY <1>0, <2>4
  <2>9. PassedSteps(id, runbook.steps) = {} BY <2>8 DEF PassedSteps
  <2>10. RunKept(id, r, runbook.steps) BY <2>7, <2>8, <2>9, FS_EmptySet DEF RunKept
  <2>11. \A x \in DOMAIN m : RunKept(x, m[x], runbook.steps) BY <1>0, <2>6, <2>10
  <2>12. IsFiniteSet(DOMAIN m) /\ n = Cardinality(DOMAIN m)
    <3>1. PICK D : D = DOMAIN runbook.execs OBVIOUS
    <3>2. IsFiniteSet(D) /\ id \notin D /\ runbook.total = Cardinality(D) BY <1>0, <2>4, <3>1
    <3>3. IsFiniteSet(D \cup {id}) /\ Cardinality(D \cup {id}) = Cardinality(D) + 1
      BY <3>2, FS_AddElement
    <3>. QED BY <2>3, <2>6, <3>1, <3>2, <3>3
  <2>. QED BY <1>0, <2>5, <2>6, <2>11, <2>12 DEF RunbookInv
<1>2. ASSUME DOMAIN runbook' = RunbookFields, runbook'.total = runbook.total,
             runbook'.steps = runbook.steps,
             DOMAIN runbook'.execs = DOMAIN runbook.execs,
             \A x \in DOMAIN runbook.execs :
                /\ DOMAIN runbook'.execs[x] = ExecFields
                /\ runbook'.execs[x].completed_steps = runbook.execs[x].completed_steps
                /\ runbook'.execs[x].dry_run = runbook.execs[x].dry_run
                /\ \/ runbook'.execs[x].status = runbook.execs[x].status
                   \/ runbook'.execs[x].status # "Executing",
             \/ runbook'.settings = runbook.settings
             \/ /\ DOMAIN runbook'.settings = SettingFields
                /\ runbook'.settings.schema \in Nat /\ runbook'.settings.schema >= 1
                /\ \E id \in DOMAIN runbook.execs : runbook.execs[id].dry_run = FALSE
      PROVE  RunbookInv'
  <2>1. ASSUME NEW x \in DOMAIN runbook'.execs
        PROVE  RunKept(x, runbook'.execs[x], runbook'.steps)
    BY <1>0, <1>2 DEF RunKept
  <2>2. \/ runbook'.settings = Defaults
        \/ \E id \in DOMAIN runbook'.execs : runbook'.execs[id].dry_run = FALSE
    BY <1>0, <1>2
  <2>3. /\ DOMAIN runbook'.settings = SettingFields
        /\ runbook'.settings.schema \in Nat /\ runbook'.settings.schema >= 1
    BY <1>0, <1>2
  <2>. QED BY <1>0, <1>2, <2>1, <2>2, <2>3 DEF RunbookInv
<1>3. ASSUME NEW id, NEW v, validate_runbook(id, v)
      PROVE  RunbookInv'
  <2>1. /\ DOMAIN runbook' = RunbookFields /\ runbook'.execs = runbook.execs
        /\ runbook'.total = runbook.total
        /\ runbook'.steps = runbook.steps /\ runbook'.settings = runbook.settings
    BY <1>0, <1>3 DEF validate_runbook, RunbookFields
  <2>. QED BY <1>0, <2>1 DEF RunbookInv
<1>4. ASSUME NEW id \in DOMAIN runbook.execs, NEW s, s # "Executing",
             runbook' = [runbook EXCEPT !.execs[id].status = s]
      PROVE  RunbookInv'
  <2>1. PICK r : r = [runbook.execs[id] EXCEPT !.status = s] OBVIOUS
  <2>2. PICK m : m = [runbook.execs EXCEPT ![id] = r] OBVIOUS
  <2>3. runbook' = [runbook EXCEPT !.execs = m] BY <1>0, <1>4, <2>1, <2>2 DEF RunbookFields
  <2>4. /\ DOMAIN runbook' = RunbookFields /\ runbook'.execs = m
        /\ runbook'.total = runbook.total
        /\ runbook'.steps = runbook.steps /\ runbook'.settings = runbook.settings
    BY <1>0, <2>3 DEF RunbookFields
  <2>5. DOMAIN runbook.execs[id] = ExecFields BY <1>0 DEF RunKept
  <2>6. /\ DOMAIN r = ExecFields /\ r.status = s
        /\ r.completed_steps = runbook.execs[id].completed_steps
        /\ r.dry_run = runbook.execs[id].dry_run
    BY <2>1, <2>5 DEF ExecFields
  <2>7. \A x \in DOMAIN runbook.execs : DOMAIN runbook.execs[x] = ExecFields
    BY <1>0 DEF RunKept
  <2>8. /\ DOMAIN m = DOMAIN runbook.execs /\ m[id] = r
        /\ \A x \in DOMAIN runbook.execs : x # id => m[x] = runbook.execs[x]
    BY <2>2
  <2>9. \A x \in DOMAIN runbook.execs :
           /\ DOMAIN m[x] = ExecFields
           /\ m[x].completed_steps = runbook.execs[x].completed_steps
           /\ m[x].dry_run = runbook.execs[x].dry_run
           /\ m[x].status = runbook.execs[x].status \/ m[x].status # "Executing"
    BY <1>4, <2>6, <2>7, <2>8
  <2>. QED BY <1>2, <2>4, <2>8, <2>9
<1>5. ASSUME NEW id, NEW ok, finalize_execution(id, ok)
      PROVE  RunbookInv'
  <2>1. PICK s : s = IF ok THEN "Completed" ELSE "Failed" OBVIOUS
  <2>2. s # "Executing" BY <2>1
  <2>3. id \in DOMAIN runbook.execs /\ runbook' = [runbook EXCEPT !.execs[id].status = s]
    BY <1>5, <2>1 DEF finalize_execution
  <2>. QED BY <1>4, <2>2, <2>3
<1>6. ASSUME NEW id, rollback_execution(id)
      PROVE  RunbookInv'
  BY <1>4, <1>6 DEF rollback_execution
<1>7. ASSUME NEW id, NEW s, Applied(id, s), DOMAIN s = SettingFields,
             s.schema \in Nat, s.schema >= 1
      PROVE  RunbookInv'
  <2>1. /\ id \in DOMAIN runbook.execs /\ ~runbook.execs[id].dry_run
        /\ runbook' = [runbook EXCEPT !.settings = s]
    BY <1>7 DEF Applied, Executing
  <2>2. /\ DOMAIN runbook' = RunbookFields /\ runbook'.execs = runbook.execs
        /\ runbook'.total = runbook.total
        /\ runbook'.steps = runbook.steps /\ runbook'.settings = s
    BY <1>0, <2>1 DEF RunbookFields
  <2>3. runbook.execs[id].dry_run = FALSE BY <2>1
  <2>4. \A x \in DOMAIN runbook.execs : DOMAIN runbook.execs[x] = ExecFields
    BY <1>0 DEF RunKept
  <2>. QED BY <1>2, <1>7, <2>1, <2>2, <2>3, <2>4
<1>8. ASSUME NEW id, NEW b, execute_contract_pause(id, b)
      PROVE  RunbookInv'
  <2>1. PICK s : s = [runbook.settings EXCEPT !.paused = b] OBVIOUS
  <2>2. DOMAIN s = SettingFields /\ s.schema = runbook.settings.schema
    BY <1>0, <2>1 DEF SettingFields
  <2>. QED BY <1>0, <1>7, <1>8, <2>1, <2>2 DEF execute_contract_pause
<1>9. ASSUME NEW id, NEW v, execute_cap_increase(id, v)
      PROVE  RunbookInv'
  <2>1. PICK s : s = [runbook.settings EXCEPT !.cap = v] OBVIOUS
  <2>2. DOMAIN s = SettingFields /\ s.schema = runbook.settings.schema
    BY <1>0, <2>1 DEF SettingFields
  <2>. QED BY <1>0, <1>7, <1>9, <2>1, <2>2 DEF execute_cap_increase
<1>10. ASSUME NEW id, NEW v \in Amount, execute_schema_update(id, v)
       PROVE  RunbookInv'
  <2>1. PICK s : s = [runbook.settings EXCEPT !.schema = v] OBVIOUS
  <2>2. v \in Nat /\ v > runbook.settings.schema
    BY <1>10, PlatformAssumption DEF execute_schema_update
  <2>3. DOMAIN s = SettingFields /\ s.schema = v BY <1>0, <2>1 DEF SettingFields
  <2>4. s.schema \in Nat /\ s.schema >= 1 BY <1>0, <2>2, <2>3
  <2>5. Applied(id, s) BY <1>10, <2>1 DEF execute_schema_update
  <2>. QED BY <1>7, <2>3, <2>4, <2>5
<1>11. ASSUME NEW id, NEW a, NEW b, execute_bridge_failover(a, id, b)
       PROVE  RunbookInv'
  <2>1. PICK w : Applied(id, [runbook.settings EXCEPT !.bridge = w])
    BY <1>11 DEF execute_bridge_failover
  <2>2. PICK s : s = [runbook.settings EXCEPT !.bridge = w] OBVIOUS
  <2>3. DOMAIN s = SettingFields /\ s.schema = runbook.settings.schema
    BY <1>0, <2>2 DEF SettingFields
  <2>. QED BY <1>0, <1>7, <2>1, <2>2, <2>3
<1>12. ASSUME NEW id, NEW step, NEW status, record_step(id, step, status)
       PROVE  RunbookInv'
  <2>1. PICK run : run = runbook.execs[id] OBVIOUS
  <2>2. id \in DOMAIN runbook.execs /\ run.status = "Executing"
    BY <1>12, <2>1 DEF record_step, Executing
  <2>3. RunKept(id, run, runbook.steps) BY <1>0, <2>1, <2>2
  <2>4. PICK n : n = run.completed_steps + (IF status = "Passed" THEN 1 ELSE 0) OBVIOUS
  <2>5. PICK s : s = IF status = "Failed" THEN "Failed" ELSE run.status OBVIOUS
  <2>6. PICK r : r = [run EXCEPT !.completed_steps = n, !.status = s] OBVIOUS
  <2>7. PICK m : m = [runbook.execs EXCEPT ![id] = r] OBVIOUS
  <2>8. PICK k : k = <<id, step>> OBVIOUS
  <2>9. PICK t : t = Put(runbook.steps, k, status) OBVIOUS
  <2>10. runbook' = [runbook EXCEPT !.steps = t, !.execs = m]
    <3>1. r = [run EXCEPT
                 !.completed_steps = run.completed_steps
                                       + (IF status = "Passed" THEN 1 ELSE 0),
                 !.status = IF status = "Failed" THEN "Failed" ELSE run.status]
      BY <2>4, <2>5, <2>6
    <3>2. runbook' = [runbook EXCEPT !.steps = t, !.execs[id] = r]
      <4>1. runbook' = [runbook EXCEPT
              !.steps = Put(@, <<id, step>>, status),
              !.execs[id] = [runbook.execs[id] EXCEPT
                 !.completed_steps = @ + (IF status = "Passed" THEN 1 ELSE 0),
                 !.status = IF status = "Failed" THEN "Failed" ELSE @]]
        BY <1>12 DEF record_step
      <4>2. [runbook.execs[id] EXCEPT
                 !.completed_steps = @ + (IF status = "Passed" THEN 1 ELSE 0),
                 !.status = IF status = "Failed" THEN "Failed" ELSE @] = r
        BY <2>1, <3>1
      <4>. QED BY <2>8, <2>9, <4>1, <4>2
    <3>. QED BY <1>0, <2>7, <3>2 DEF RunbookFields
  <2>11. /\ DOMAIN runbook' = RunbookFields /\ runbook'.execs = m
         /\ runbook'.total = runbook.total
         /\ runbook'.steps = t /\ runbook'.settings = runbook.settings
    BY <1>0, <2>10 DEF RunbookFields
  <2>12. /\ DOMAIN r = ExecFields /\ r.completed_steps = n /\ r.status = s
         /\ r.dry_run = run.dry_run
    BY <2>3, <2>6 DEF RunKept, ExecFields
  <2>13. DOMAIN m = DOMAIN runbook.execs /\ m[id] = r
         /\ \A x \in DOMAIN runbook.execs : x # id => m[x] = runbook.execs[x]
    BY <2>2, <2>7
  <2>14. /\ DOMAIN t = DOMAIN runbook.steps \cup {k} /\ t[k] = status
         /\ \A x \in DOMAIN runbook.steps : x # k => t[x] = runbook.steps[x]
    BY <2>9 DEF Put
  <2>15. k[1] = id BY <2>8
  <2>16. PICK steps : steps = runbook.steps OBVIOUS
  <2>17. IsFiniteSet(DOMAIN steps) /\ t = Put(steps, k, status) BY <1>0, <2>9, <2>16
  <2>18. IsFiniteSet(DOMAIN t)
    <3>1. IsFiniteSet(DOMAIN steps \cup {k}) BY <2>17, FS_AddElement
    <3>. QED BY <2>14, <2>16, <3>1
  <2>19. \A x \in DOMAIN t : x[1] \in DOMAIN m BY <1>0, <2>2, <2>13, <2>14, <2>15
  <2>20. RunKept(id, r, t)
    <3>1. PICK c \in Nat : c = run.completed_steps BY <2>3 DEF RunKept
    <3>2. PICK A, B : A = Cardinality(PassedSteps(id, t))
                      /\ B = Cardinality(PassedSteps(id, steps))
      OBVIOUS
    <3>3. /\ A \in Nat /\ B \in Nat /\ A <= B + 1
          /\ status # "Passed" => A <= B
      BY <2>17, <3>2, StepsPassed
    <3>4. c >= B BY <2>3, <2>16, <3>1, <3>2 DEF RunKept
    <3>5. n \in Nat /\ n >= A
      <4>1. CASE status = "Passed"
        <5>1. n = c + 1 BY <2>4, <3>1, <4>1
        <5>. QED BY <3>3, <3>4, <5>1
      <4>2. CASE status # "Passed"
        <5>1. n = c + 0 BY <2>4, <3>1, <4>2
        <5>2. n = c BY <5>1
        <5>. QED BY <3>3, <3>4, <4>2, <5>2
      <4>. QED BY <4>1, <4>2
    <3>6. ASSUME NEW x \in DOMAIN t, x[1] = id, t[x] = "Failed" PROVE s # "Executing"
      <4>1. CASE x = k BY <2>5, <2>14, <3>6, <4>1
      <4>2. CASE x # k BY <2>2, <2>3, <2>14, <3>6, <4>2 DEF RunKept
      <4>. QED BY <4>1, <4>2
    <3>. QED BY <2>12, <3>2, <3>5, <3>6 DEF RunKept
  <2>21. ASSUME NEW x \in DOMAIN m PROVE RunKept(x, m[x], t)
    <3>1. CASE x = id BY <2>13, <2>20, <3>1
    <3>2. CASE x # id
      <4>1. m[x] = runbook.execs[x] /\ RunKept(x, m[x], steps) BY <1>0, <2>13, <2>16, <3>2
      <4>2. PICK A, B : A = Cardinality(PassedSteps(x, t))
                        /\ B = Cardinality(PassedSteps(x, steps))
        OBVIOUS
      <4>3. A \in Nat /\ B \in Nat /\ A <= B BY <2>15, <2>17, <3>2, <4>2, StepsPassed
      <4>4. PICK c \in Nat : c = m[x].completed_steps BY <4>1 DEF RunKept
      <4>5. c >= A BY <4>1, <4>2, <4>3, <4>4 DEF RunKept
      <4>6. \A y \in DOMAIN t : y[1] = x => y \in DOMAIN steps /\ t[y] = steps[y]
        BY <2>14, <2>15, <2>16, <3>2
      <4>. QED BY <4>1, <4>2, <4>4, <4>5, <4>6 DEF RunKept
    <3>. QED BY <3>1, <3>2
  <2>22. \A x \in DOMAIN runbook.execs : m[x].dry_run = runbook.execs[x].dry_run
    BY <2>1, <2>12, <2>13
  <2>. QED BY <1>0, <2>11, <2>13, <2>18, <2>19, <2>21, <2>22 DEF RunbookInv
<1>. QED BY <1>1, <1>3, <1>5, <1>6, <1>8, <1>9, <1>10, <1>11, <1>12 DEF RunbookNext

LEMMA RunbookInvHarmless ==
    ASSUME RunbookInv
    PROVE  RehearsalsHarmless
<1>1. (\A id \in DOMAIN runbook.execs : runbook.execs[id].dry_run)
         => runbook.settings = Defaults
  BY DEF RunbookInv
<1>2. \A k \in DOMAIN runbook.steps :
        /\ k[1] \in DOMAIN runbook.execs
        /\ runbook.steps[k] = "Failed" => runbook.execs[k[1]].status # "Executing"
  BY DEF RunbookInv, RunKept
<1>3. \A id \in DOMAIN runbook.execs :
        runbook.execs[id].completed_steps >= Cardinality(PassedSteps(id, runbook.steps))
  BY DEF RunbookInv, RunKept
<1>. QED BY <1>1, <1>2, <1>3 DEF RunbookInv, RehearsalsHarmless, PassedSteps

LEMMA RunbookBegins ==
    ASSUME RunbookInit
    PROVE  RunbookInv
<1>1. /\ DOMAIN runbook = RunbookFields /\ runbook.execs = EmptyMap
      /\ runbook.steps = EmptyMap /\ runbook.settings = Defaults /\ runbook.total = 0
  BY DEF RunbookInit, RunbookFields
<1>2. DOMAIN Defaults = SettingFields /\ Defaults.schema = 1 BY DEF Defaults, SettingFields
<1>3. DOMAIN EmptyMap = {} BY DEF EmptyMap
<1>. QED BY <1>1, <1>2, <1>3, FS_EmptySet DEF RunbookInv

-----------------------------------------------------------------------------
(* Operations: incidents.                                                    *)

IncidentFields ==
    {"records", "timeline", "active", "breaker", "postmortems", "oncall", "policies"}
CaseFields == {"status", "reporter", "commander", "timeline_count", "circuit_breaker_tripped"}

Closing == {"Resolved", "Closed"}
OpenOf(cases) == {id \in DOMAIN cases : cases[id].status \notin Closing}

(* Exactly the indices below an incident's count have an entry.              *)
TimelineFull(cases, timeline) ==
    \A k : k \in DOMAIN timeline <=>
              \E id \in DOMAIN cases :
                 \E n \in Nat : n < cases[id].timeline_count /\ k = <<id, n>>

IncidentInv ==
    /\ DOMAIN incident = IncidentFields
    /\ \A id \in DOMAIN incident.records :
          /\ DOMAIN incident.records[id] = CaseFields
          /\ incident.records[id].timeline_count \in Nat
    /\ TimelineFull(incident.records, incident.timeline)
    /\ IsFiniteSet(DOMAIN incident.records)
    /\ incident.active \in Nat /\ incident.active >= Cardinality(OpenOf(incident.records))
    /\ incident.breaker => \E id \in DOMAIN incident.records :
                              incident.records[id].circuit_breaker_tripped

(* What one more entry does to a state of the module.                        *)
LEMMA EntryAdded ==
    ASSUME NEW s, DOMAIN s = IncidentFields, NEW id \in DOMAIN s.records,
           DOMAIN s.records[id] = CaseFields, NEW type, NEW t, t = WithEntry(s, id, type)
    PROVE  /\ DOMAIN t = IncidentFields
           /\ DOMAIN t.records = DOMAIN s.records
           /\ DOMAIN t.records[id] = CaseFields
           /\ t.records[id].timeline_count = s.records[id].timeline_count + 1
           /\ t.records[id].status = s.records[id].status
           /\ t.records[id].circuit_breaker_tripped = s.records[id].circuit_breaker_tripped
           /\ \A x \in DOMAIN s.records : x # id => t.records[x] = s.records[x]
           /\ t.timeline = Put(s.timeline, <<id, s.records[id].timeline_count>>, type)
           /\ t.active = s.active /\ t.breaker = s.breaker
<1>1. PICK n : n = s.records[id].timeline_count OBVIOUS
<1>2. PICK r : r = [s.records[id] EXCEPT !.timeline_count = n + 1] OBVIOUS
<1>3. PICK m : m = [s.records EXCEPT ![id] = r] OBVIOUS
<1>4. PICK l : l = Put(s.timeline, <<id, n>>, type) OBVIOUS
<1>5. t = [s EXCEPT !.records = m, !.timeline = l]
  BY <1>1, <1>2, <1>3, <1>4 DEF WithEntry, IncidentFields
<1>6. /\ DOMAIN t = IncidentFields /\ t.records = m /\ t.timeline = l
      /\ t.active = s.active /\ t.breaker = s.breaker
  BY <1>5 DEF IncidentFields
<1>7. /\ DOMAIN r = CaseFields /\ r.timeline_count = n + 1 /\ r.status = s.records[id].status
      /\ r.circuit_breaker_tripped = s.records[id].circuit_breaker_tripped
  BY <1>2 DEF CaseFields
<1>. QED BY <1>1, <1>3, <1>4, <1>6, <1>7

(* An entry at the count of its incident leaves no gap and overwrites none.  *)
LEMMA TimelineGrows ==
    ASSUME NEW cases, NEW timeline, TimelineFull(cases, timeline),
           NEW id \in DOMAIN cases, NEW c \in Nat, c = cases[id].timeline_count,
           NEW after, DOMAIN after = DOMAIN cases, after[id].timeline_count = c + 1,
           \A x \in DOMAIN cases :
              x # id => after[x].timeline_count = cases[x].timeline_count,
           NEW type, NEW line, line = Put(timeline, <<id, c>>, type)
    PROVE  TimelineFull(after, line)
<1>1. DOMAIN line = DOMAIN timeline \cup {<<id, c>>} BY DEF Put
<1>2. ASSUME NEW k, k \in DOMAIN line
      PROVE  \E x \in DOMAIN after : \E n \in Nat : n < after[x].timeline_count /\ k = <<x, n>>
  <2>1. CASE k = <<id, c>> BY <2>1
  <2>2. CASE k \in DOMAIN timeline
    <3>1. PICK x \in DOMAIN cases, n \in Nat : n < cases[x].timeline_count /\ k = <<x, n>>
      BY <2>2 DEF TimelineFull
    <3>2. n < after[x].timeline_count BY <3>1
    <3>. QED BY <3>1, <3>2
  <2>. QED BY <1>1, <1>2, <2>1, <2>2
<1>3. ASSUME NEW x \in DOMAIN after, NEW n \in Nat, n < after[x].timeline_count
      PROVE  <<x, n>> \in DOMAIN line
  <2>1. CASE x = id /\ n = c BY <1>1, <2>1
  <2>2. CASE ~(x = id /\ n = c)
    <3>1. n < cases[x].timeline_count BY <1>3, <2>2
    <3>2. <<x, n>> \in DOMAIN timeline BY <3>1 DEF TimelineFull
    <3>. QED BY <1>1, <3>2
  <2>. QED BY <2>1, <2>2
<1>. QED BY <1>2, <1>3 DEF TimelineFull

(* Every call of incident_management.rs keeps incidents accounted for.       *)
LEMMA IncidentStep ==
    ASSUME IncidentInv, IncidentNext
    PROVE  IncidentInv'
<1>0. /\ DOMAIN incident = IncidentFields
      /\ \A id \in DOMAIN incident.records :
            /\ DOMAIN incident.records[id] = CaseFields
            /\ incident.records[id].timeline_count \in Nat
      /\ TimelineFull(incident.records, incident.timeline)
      /\ IsFiniteSet(DOMAIN incident.records)
      /\ incident.active \in Nat
      /\ incident.active >= Cardinality(OpenOf(incident.records))
      /\ incident.breaker => \E id \in DOMAIN incident.records :
                                incident.records[id].circuit_breaker_tripped
  BY DEF IncidentInv
<1>1. PICK opened : opened = OpenOf(incident.records) OBVIOUS
<1>2. /\ opened \subseteq DOMAIN incident.records /\ IsFiniteSet(opened)
      /\ Cardinality(opened) \in Nat /\ incident.active >= Cardinality(opened)
  <2>1. opened \subseteq DOMAIN incident.records BY <1>1 DEF OpenOf
  <2>. QED BY <1>0, <1>1, <2>1, FS_Subset, FS_CardinalityType
<1>3. ASSUME NEW a, NEW id, trigger_incident(a, id)
      PROVE  IncidentInv'
  <2>1. PICK r : r = [status |-> "Triggered", reporter |-> a, commander |-> None,
                      timeline_count |-> 1, circuit_breaker_tripped |-> FALSE]
    OBVIOUS
  <2>2. PICK m : m = Put(incident.records, id, r) OBVIOUS
  <2>3. PICK l : l = Put(incident.timeline, <<id, 0>>, "AlertFired") OBVIOUS
  <2>4. PICK n : n = incident.active + 1 OBVIOUS
  <2>5. /\ id \notin DOMAIN incident.records
        /\ incident' = [incident EXCEPT !.records = m, !.timeline = l, !.active = n]
    BY <1>3, <2>1, <2>2, <2>3, <2>4 DEF trigger_incident
  <2>6. /\ DOMAIN incident' = IncidentFields /\ incident'.records = m
        /\ incident'.timeline = l /\ incident'.active = n
        /\ incident'.breaker = incident.breaker
    BY <1>0, <2>5 DEF IncidentFields
  <2>7. DOMAIN r = CaseFields /\ r.timeline_count = 1 BY <2>1 DEF CaseFields
  <2>8. /\ DOMAIN m = DOMAIN incident.records \cup {id} /\ m[id] = r
        /\ \A x \in DOMAIN incident.records : m[x] = incident.records[x]
    BY <2>2, <2>5 DEF Put
  <2>9. \A x \in DOMAIN m : DOMAIN m[x] = CaseFields /\ m[x].timeline_count \in Nat
    BY <1>0, <2>7, <2>8
  <2>10. DOMAIN l = DOMAIN incident.timeline \cup {<<id, 0>>} BY <2>3 DEF Put
  <2>11. TimelineFull(m, l)
    <3>1. ASSUME NEW k, k \in DOMAIN l
          PROVE  \E x \in DOMAIN m : \E i \in Nat : i < m[x].timeline_count /\ k = <<x, i>>
      <4>1. CASE k = <<id, 0>>
        <5>1. 0 < m[id].timeline_count BY <2>7, <2>8
        <5>. QED BY <2>8, <4>1, <5>1
      <4>2. CASE k \in DOMAIN incident.timeline BY <1>0, <2>8, <4>2 DEF TimelineFull
      <4>. QED BY <2>10, <3>1, <4>1, <4>2
    <3>2. ASSUME NEW x \in DOMAIN m, NEW i \in Nat, i < m[x].timeline_count
          PROVE  <<x, i>> \in DOMAIN l
      <4>1. CASE x = id
        <5>1. i = 0 BY <2>7, <2>8, <3>2, <4>1
        <5>. QED BY <2>10, <4>1, <5>1
      <4>2. CASE x # id
        <5>1. x \in DOMAIN incident.records /\ i < incident.records[x].timeline_count
          BY <2>8, <3>2, <4>2
        <5>2. <<x, i>> \in DOMAIN incident.timeline BY <1>0, <5>1 DEF TimelineFull
        <5>. QED BY <2>10, <5>2
      <4>. QED BY <4>1, <4>2
    <3>. QED BY <3>1, <3>2 DEF TimelineFull
  <2>12. IsFiniteSet(DOMAIN m)
    <3>1. PICK D : D = DOMAIN incident.records OBVIOUS
    <3>2. IsFiniteSet(D \cup {id}) BY <1>0, <3>1, FS_AddElement
    <3>. QED BY <2>8, <3>1, <3>2
  <2>13. n \in Nat /\ n >= Cardinality(OpenOf(m))
    <3>1. PICK E : E = OpenOf(m) OBVIOUS
    <3>2. E \subseteq opened \cup {id} BY <1>1, <2>8, <3>1 DEF OpenOf
    <3>3. PICK F : F = opened \cup {id} OBVIOUS
    <3>4. /\ IsFiniteSet(F)
          /\ Cardinality(F) = Cardinality(opened) \/ Cardinality(F) = Cardinality(opened) + 1
      BY <1>2, <3>3, FS_AddElement
    <3>5. IsFiniteSet(E) /\ Cardinality(E) <= Cardinality(F)
      <4>1. E \subseteq F BY <3>2, <3>3
      <4>. QED BY <3>4, <4>1, FS_Subset
    <3>6. Cardinality(E) \in Nat BY <3>5, FS_CardinalityType
    <3>. QED BY <1>0, <1>2, <2>4, <3>1, <3>4, <3>5, <3>6
  <2>14. incident.breaker => \E x \in DOMAIN m : m[x].circuit_breaker_tripped
    BY <1>0, <2>8
  <2>. QED BY <2>6, <2>9, <2>11, <2>12, <2>13, <2>14 DEF IncidentInv
<1>4. ASSUME NEW id \in DOMAIN incident.records, NEW s, NEW type,
             DOMAIN s = IncidentFields, DOMAIN s.records = DOMAIN incident.records,
             DOMAIN s.records[id] = CaseFields,
             s.records[id].timeline_count = incident.records[id].timeline_count,
             \A x \in DOMAIN incident.records : x # id => s.records[x] = incident.records[x],
             s.timeline = incident.timeline,
             s.active \in Nat, s.active >= Cardinality(OpenOf(s.records)),
             s.breaker => \E x \in DOMAIN s.records : s.records[x].circuit_breaker_tripped,
             incident' = WithEntry(s, id, type)
      PROVE  IncidentInv'
  <2>1. PICK t : t = WithEntry(s, id, type) OBVIOUS
  <2>2. /\ DOMAIN t = IncidentFields
        /\ DOMAIN t.records = DOMAIN s.records
        /\ DOMAIN t.records[id] = CaseFields
        /\ t.records[id].timeline_count = s.records[id].timeline_count + 1
        /\ t.records[id].status = s.records[id].status
        /\ t.records[id].circuit_breaker_tripped = s.records[id].circuit_breaker_tripped
        /\ \A x \in DOMAIN s.records : x # id => t.records[x] = s.records[x]
        /\ t.timeline = Put(s.timeline, <<id, s.records[id].timeline_count>>, type)
        /\ t.active = s.active /\ t.breaker = s.breaker
    BY <1>4, <2>1, EntryAdded
  <2>3. PICK c \in Nat : c = incident.records[id].timeline_count BY <1>0
  <2>4. TimelineFull(t.records, t.timeline)
    <3>1. PICK cases, timeline, after, line :
             /\ cases = incident.records /\ timeline = incident.timeline
             /\ after = t.records /\ line = t.timeline
      OBVIOUS
    <3>2. /\ TimelineFull(cases, timeline) /\ id \in DOMAIN cases
          /\ c = cases[id].timeline_count /\ DOMAIN after = DOMAIN cases
          /\ after[id].timeline_count = c + 1
          /\ \A x \in DOMAIN cases : x # id => after[x].timeline_count = cases[x].timeline_count
          /\ line = Put(timeline, <<id, c>>, type)
      BY <1>0, <1>4, <2>2, <2>3, <3>1
    <3>3. TimelineFull(after, line) BY <3>2, TimelineGrows
    <3>. QED BY <3>1, <3>3
  <2>5. \A x \in DOMAIN t.records :
           DOMAIN t.records[x] = CaseFields /\ t.records[x].timeline_count \in Nat
    BY <1>0, <1>4, <2>2, <2>3
  <2>6. OpenOf(t.records) = OpenOf(s.records) BY <2>2 DEF OpenOf
  <2>7. t.breaker => \E x \in DOMAIN t.records : t.records[x].circuit_breaker_tripped
    BY <1>4, <2>2
  <2>8. incident' = t BY <1>4, <2>1
  <2>. QED BY <1>0, <1>4, <2>2, <2>4, <2>5, <2>6, <2>7, <2>8 DEF IncidentInv
<1>5. ASSUME NEW id \in DOMAIN incident.records, NEW a, acknowledge_incident(a, id)
      PROVE  IncidentInv'
  <2>1. PICK r1 : r1 = [incident.records[id] EXCEPT !.status = "Acknowledged"] OBVIOUS
  <2>2. PICK r : r = [r1 EXCEPT !.commander = Some(a)] OBVIOUS
  <2>3. /\ DOMAIN r1 = CaseFields /\ DOMAIN r = CaseFields /\ r.status = "Acknowledged"
        /\ r.timeline_count = incident.records[id].timeline_count
        /\ r.circuit_breaker_tripped = incident.records[id].circuit_breaker_tripped
    BY <1>0, <2>1, <2>2 DEF CaseFields
  <2>4. PICK m : m = [incident.records EXCEPT ![id] = r] OBVIOUS
  <2>5. PICK s : s = [incident EXCEPT !.records = m] OBVIOUS
  <2>6. [incident EXCEPT !.records[id].status = "Acknowledged",
                         !.records[id].commander = Some(a)] = s
    <3>1. PICK m1 : m1 = [incident.records EXCEPT ![id] = r1] OBVIOUS
    <3>2. PICK b : b = [incident EXCEPT !.records[id].status = "Acknowledged"] OBVIOUS
    <3>3. b = [incident EXCEPT !.records = m1] BY <1>0, <2>1, <3>1, <3>2 DEF IncidentFields
    <3>4. DOMAIN b = IncidentFields /\ b.records = m1 /\ m1[id] = r1
      BY <1>0, <3>1, <3>3 DEF IncidentFields
    <3>5. [m1 EXCEPT ![id] = r] = m BY <2>4, <3>1
    <3>6. [b EXCEPT !.records[id].commander = Some(a)] = [b EXCEPT !.records = m]
      BY <2>2, <3>4, <3>5 DEF IncidentFields
    <3>7. [b EXCEPT !.records = m] = s BY <1>0, <2>5, <3>3 DEF IncidentFields
    <3>. QED BY <3>2, <3>6, <3>7
  <2>7. /\ DOMAIN s = IncidentFields /\ s.records = m /\ s.timeline = incident.timeline
        /\ s.active = incident.active /\ s.breaker = incident.breaker
    BY <1>0, <2>5 DEF IncidentFields
  <2>8. /\ DOMAIN m = DOMAIN incident.records /\ m[id] = r
        /\ \A x \in DOMAIN incident.records : x # id => m[x] = incident.records[x]
    BY <2>4
  <2>9. /\ incident.records[id].status = "Triggered"
        /\ incident' = WithEntry(s, id, "CommanderAssigned")
    BY <1>5, <2>6 DEF acknowledge_incident
  <2>10. OpenOf(m) = OpenOf(incident.records) BY <2>3, <2>8, <2>9 DEF OpenOf, Closing
  <2>11. incident.breaker => \E x \in DOMAIN m : m[x].circuit_breaker_tripped
    BY <1>0, <2>3, <2>8
  <2>. QED BY <1>0, <1>4, <2>3, <2>7, <2>8, <2>9, <2>10, <2>11
<1>6. ASSUME NEW id \in DOMAIN incident.records, NEW type, add_timeline_entry(id, type)
      PROVE  IncidentInv'
  <2>1. PICK s : s = incident OBVIOUS
  <2>2. incident' = WithEntry(s, id, type) BY <1>6, <2>1 DEF add_timeline_entry
  <2>. QED BY <1>0, <1>4, <2>1, <2>2
<1>7. ASSUME NEW id \in DOMAIN incident.records, NEW trip \in BOOLEAN,
             set_circuit_breaker(id, trip)
      PROVE  IncidentInv'
  <2>1. PICK r : r = [incident.records[id] EXCEPT !.circuit_breaker_tripped = trip] OBVIOUS
  <2>2. /\ DOMAIN r = CaseFields /\ r.status = incident.records[id].status
        /\ r.timeline_count = incident.records[id].timeline_count
        /\ r.circuit_breaker_tripped = trip
    BY <1>0, <2>1 DEF CaseFields
  <2>3. PICK m : m = [incident.records EXCEPT ![id] = r] OBVIOUS
  <2>4. PICK s : s = [incident EXCEPT !.records = m, !.breaker = trip] OBVIOUS
  <2>5. [incident EXCEPT !.records[id].circuit_breaker_tripped = trip, !.breaker = trip] = s
    BY <1>0, <2>1, <2>3, <2>4 DEF IncidentFields
  <2>6. PICK type : incident' = WithEntry(s, id, type)
    BY <1>7, <2>5 DEF set_circuit_breaker
  <2>7. /\ DOMAIN s = IncidentFields /\ s.records = m /\ s.timeline = incident.timeline
        /\ s.active = incident.active /\ s.breaker = trip
    BY <1>0, <2>4 DEF IncidentFields
  <2>8. /\ DOMAIN m = DOMAIN incident.records /\ m[id] = r
        /\ \A x \in DOMAIN incident.records : x # id => m[x] = incident.records[x]
    BY <2>3
  <2>9. OpenOf(m) = OpenOf(incident.records) BY <2>2, <2>8 DEF OpenOf
  <2>10. trip => \E x \in DOMAIN m : m[x].circuit_breaker_tripped BY <2>2, <2>8
  <2>. QED BY <1>0, <1>4, <2>2, <2>6, <2>7, <2>8, <2>9, <2>10
<1>8. ASSUME NEW id \in DOMAIN incident.records, resolve_incident(id)
      PROVE  IncidentInv'
  <2>1. PICK r1 : r1 = [incident.records[id] EXCEPT !.status = "Resolved"] OBVIOUS
  <2>2. PICK r : r = [r1 EXCEPT !.circuit_breaker_tripped = FALSE] OBVIOUS
  <2>3. /\ DOMAIN r1 = CaseFields /\ DOMAIN r = CaseFields /\ r.status = "Resolved"
        /\ r.timeline_count = incident.records[id].timeline_count
    BY <1>0, <2>1, <2>2 DEF CaseFields
  <2>4. PICK m : m = [incident.records EXCEPT ![id] = r] OBVIOUS
  <2>5. PICK up : up = (incident.breaker /\ ~incident.records[id].circuit_breaker_tripped)
    OBVIOUS
  <2>6. PICK n : n = IF incident.active > 0 THEN incident.active - 1 ELSE incident.active
    OBVIOUS
  <2>7. PICK s : s = [incident EXCEPT !.records = m, !.breaker = up, !.active = n] OBVIOUS
  <2>8. incident' = WithEntry(s, id, "StatusChanged")
    <3>1. PICK m1 : m1 = [incident.records EXCEPT ![id] = r1] OBVIOUS
    <3>2. PICK b : b = [incident EXCEPT !.records[id].status = "Resolved"] OBVIOUS
    <3>3. b = [incident EXCEPT !.records = m1] BY <1>0, <2>1, <3>1, <3>2 DEF IncidentFields
    <3>4. DOMAIN b = IncidentFields /\ b.records = m1 /\ m1[id] = r1
      BY <1>0, <3>1, <3>3 DEF IncidentFields
    <3>5. [m1 EXCEPT ![id] = r] = m BY <2>4, <3>1
    <3>6. [b EXCEPT !.records[id].circuit_breaker_tripped = FALSE] = [b EXCEPT !.records = m]
      BY <2>2, <3>4, <3>5 DEF IncidentFields
    <3>7. PICK d : d = [incident EXCEPT !.records = m] OBVIOUS
    <3>8. [b EXCEPT !.records = m] = d BY <1>0, <3>3, <3>7 DEF IncidentFields
    <3>9. DOMAIN d = IncidentFields /\ d.breaker = incident.breaker /\ d.active = incident.active
      BY <1>0, <3>7 DEF IncidentFields
    <3>10. incident' = WithEntry(
              [d EXCEPT !.breaker = @ /\ ~incident.records[id].circuit_breaker_tripped,
                        !.active = IF @ > 0 THEN @ - 1 ELSE @],
              id, "StatusChanged")
      BY <1>8, <3>2, <3>6, <3>8, ZenonT(40) DEF resolve_incident
    <3>11. [d EXCEPT !.breaker = @ /\ ~incident.records[id].circuit_breaker_tripped,
                     !.active = IF @ > 0 THEN @ - 1 ELSE @]
             = [d EXCEPT !.breaker = up, !.active = n]
      BY <2>5, <2>6, <3>9 DEF IncidentFields
    <3>12. [d EXCEPT !.breaker = up, !.active = n] = s
      BY <1>0, <2>7, <3>7 DEF IncidentFields
    <3>. QED BY <3>10, <3>11, <3>12
  <2>9. /\ DOMAIN s = IncidentFields /\ s.records = m /\ s.timeline = incident.timeline
        /\ s.active = n /\ s.breaker = up
    BY <1>0, <2>7 DEF IncidentFields
  <2>10. /\ DOMAIN m = DOMAIN incident.records /\ m[id] = r
         /\ \A x \in DOMAIN incident.records : x # id => m[x] = incident.records[x]
    BY <2>4
  <2>11. id \in opened BY <1>1, <1>8 DEF resolve_incident, OpenOf, Closing
  <2>12. OpenOf(m) = opened \ {id} BY <1>1, <2>3, <2>10 DEF OpenOf, Closing
  <2>13. n \in Nat /\ n >= Cardinality(OpenOf(m))
    <3>1. Cardinality(opened \ {id}) = Cardinality(opened) - 1
          /\ IsFiniteSet(opened \ {id})
      BY <1>2, <2>11, FS_RemoveElement
    <3>2. Cardinality(opened \ {id}) \in Nat BY <3>1, FS_CardinalityType
    <3>. QED BY <1>0, <1>2, <2>6, <2>12, <3>1, <3>2
  <2>14. up => \E x \in DOMAIN m : m[x].circuit_breaker_tripped
    <3>1. ASSUME up PROVE \E x \in DOMAIN m : m[x].circuit_breaker_tripped
      <4>1. incident.breaker /\ ~incident.records[id].circuit_breaker_tripped
        BY <2>5, <3>1
      <4>2. PICK x \in DOMAIN incident.records : incident.records[x].circuit_breaker_tripped
        BY <1>0, <4>1
      <4>3. x # id BY <4>1, <4>2
      <4>. QED BY <2>10, <4>2, <4>3
    <3>. QED BY <3>1
  <2>. QED BY <1>4, <2>3, <2>8, <2>9, <2>10, <2>13, <2>14
<1>9. ASSUME NEW k, NEW v, set_on_call_schedule(k, v) \/ set_escalation_policy(k, v)
      PROVE  IncidentInv'
  <2>1. /\ DOMAIN incident' = IncidentFields /\ incident'.records = incident.records
        /\ incident'.timeline = incident.timeline /\ incident'.active = incident.active
        /\ incident'.breaker = incident.breaker
    BY <1>0, <1>9 DEF set_on_call_schedule, set_escalation_policy, IncidentFields
  <2>. QED BY <1>0, <2>1 DEF IncidentInv
<1>10. ASSUME NEW id \in DOMAIN incident.records, record_postmortem(id)
       PROVE  IncidentInv'
  <2>1. PICK r : r = [incident.records[id] EXCEPT !.status = "Closed"] OBVIOUS
  <2>2. /\ DOMAIN r = CaseFields /\ r.status = "Closed"
        /\ r.timeline_count = incident.records[id].timeline_count
        /\ r.circuit_breaker_tripped = incident.records[id].circuit_breaker_tripped
    BY <1>0, <2>1 DEF CaseFields
  <2>3. PICK m : m = [incident.records EXCEPT ![id] = r] OBVIOUS
  <2>4. PICK p : p = incident.postmortems \cup {id} OBVIOUS
  <2>5. incident' = [incident EXCEPT !.records = m, !.postmortems = p]
    BY <1>0, <1>10, <2>1, <2>3, <2>4 DEF record_postmortem, IncidentFields
  <2>6. /\ DOMAIN incident' = IncidentFields /\ incident'.records = m
        /\ incident'.timeline = incident.timeline /\ incident'.active = incident.active
        /\ incident'.breaker = incident.breaker
    BY <1>0, <2>5 DEF IncidentFields
  <2>7. /\ DOMAIN m = DOMAIN incident.records /\ m[id] = r
        /\ \A x \in DOMAIN incident.records : x # id => m[x] = incident.records[x]
    BY <2>3
  <2>8. \A x \in DOMAIN m : /\ DOMAIN m[x] = CaseFields /\ m[x].timeline_count \in Nat
                            /\ m[x].timeline_count = incident.records[x].timeline_count
    BY <1>0, <2>2, <2>7
  <2>9. TimelineFull(m, incident.timeline) BY <1>0, <2>7, <2>8 DEF TimelineFull
  <2>10. incident.active >= Cardinality(OpenOf(m))
    <3>1. PICK E : E = OpenOf(m) OBVIOUS
    <3>2. E \subseteq opened BY <1>1, <2>2, <2>7, <3>1 DEF OpenOf, Closing
    <3>3. IsFiniteSet(E) /\ Cardinality(E) <= Cardinality(opened) BY <1>2, <3>2, FS_Subset
    <3>4. Cardinality(E) \in Nat BY <3>3, FS_CardinalityType
    <3>. QED BY <1>0, <1>2, <3>1, <3>3, <3>4
  <2>11. incident.breaker => \E x \in DOMAIN m : m[x].circuit_breaker_tripped
    BY <1>0, <2>2, <2>7
  <2>. QED BY <1>0, <2>6, <2>7, <2>8, <2>9, <2>10, <2>11 DEF IncidentInv
<1>. QED BY <1>3, <1>5, <1>6, <1>7, <1>8, <1>9, <1>10 DEF IncidentNext

LEMMA IncidentInvAccounts ==
    ASSUME IncidentInv
    PROVE  IncidentsAccounted
<1>1. Open = OpenOf(incident.records) BY DEF Open, OpenOf, Closing
<1>2. PICK All : All = UNION {{id} \X (0..incident.records[id].timeline_count - 1) :
                                id \in DOMAIN incident.records}
  OBVIOUS
<1>3. ASSUME NEW id \in DOMAIN incident.records, NEW n
      PROVE  n \in 0..incident.records[id].timeline_count - 1
               <=> n \in Nat /\ n < incident.records[id].timeline_count
  <2>1. PICK c \in Nat : c = incident.records[id].timeline_count BY DEF IncidentInv
  <2>. QED BY <2>1
<1>4. \A k : k \in All <=>
        \E id \in DOMAIN incident.records :
           \E n \in Nat : n < incident.records[id].timeline_count /\ k = <<id, n>>
  <2>1. ASSUME NEW k \in All
        PROVE  \E id \in DOMAIN incident.records :
                  \E n \in Nat : n < incident.records[id].timeline_count /\ k = <<id, n>>
    <3>1. PICK id \in DOMAIN incident.records :
             k \in {id} \X (0..incident.records[id].timeline_count - 1)
      BY <1>2, <2>1
    <3>2. PICK n \in 0..incident.records[id].timeline_count - 1 : k = <<id, n>> BY <3>1
    <3>. QED BY <1>3, <3>2
  <2>2. ASSUME NEW id \in DOMAIN incident.records, NEW n \in Nat,
               n < incident.records[id].timeline_count
        PROVE  <<id, n>> \in All
    <3>1. n \in 0..incident.records[id].timeline_count - 1 BY <1>3, <2>2
    <3>. QED BY <1>2, <3>1
  <2>. QED BY <2>1, <2>2
<1>5. DOMAIN incident.timeline = All BY <1>4 DEF IncidentInv, TimelineFull
<1>. QED BY <1>1, <1>2, <1>5 DEF IncidentInv, IncidentsAccounted

LEMMA IncidentsBegin ==
    ASSUME IncidentInit
    PROVE  IncidentInv
<1>1. /\ DOMAIN incident = IncidentFields /\ incident.records = EmptyMap
      /\ incident.timeline = EmptyMap /\ incident.active = 0 /\ incident.breaker = FALSE
  BY DEF IncidentInit, IncidentFields
<1>2. DOMAIN EmptyMap = {} BY DEF EmptyMap
<1>3. OpenOf(EmptyMap) = {} BY <1>2 DEF OpenOf
<1>4. TimelineFull(EmptyMap, EmptyMap) BY <1>2 DEF TimelineFull
<1>. QED BY <1>1, <1>2, <1>3, <1>4, FS_EmptySet DEF IncidentInv

(* In every behaviour of the platform operations stay sound: whatever        *)
(* regions fail over to one another the configured primary is one, rehearsed *)
(* runbooks change no setting and no executing run has a failed step, and in *)
(* whatever order responders act no timeline has a gap, no open incident     *)
(* goes uncounted and no breaker is up without the incident that raised it.  *)
THEOREM OperationsStaySound == PlatformSpec => []OperationsSound
<1>. DEFINE Inv == RegionsInv /\ RunbookInv /\ IncidentInv
<1>1. PlatformInit => Inv
  BY RegionsBegin, RunbookBegins, IncidentsBegin DEF PlatformInit
<1>2. Inv /\ [PlatformNext]_platformVars => Inv'
  <2>. SUFFICES ASSUME Inv, [PlatformNext]_platformVars PROVE Inv' OBVIOUS
  <2>1. /\ regions' = regions \/ RegionsNext
        /\ runbook' = runbook \/ RunbookNext
        /\ incident' = incident \/ IncidentNext
    BY PartSteps
  <2>2. RegionsInv'
    <3>1. CASE regions' = regions BY <3>1 DEF RegionsInv, Confirmed
    <3>. QED BY <2>1, <3>1, RegionsStep
  <2>3. RunbookInv'
    <3>1. CASE runbook' = runbook BY <3>1 DEF RunbookInv
    <3>. QED BY <2>1, <3>1, RunbookStep
  <2>4. IncidentInv'
    <3>1. CASE incident' = incident BY <3>1 DEF IncidentInv
    <3>. QED BY <2>1, <3>1, IncidentStep
  <2>. QED BY <2>2, <2>3, <2>4
<1>3. Inv => OperationsSound
  BY RegionsInvConfirms, RunbookInvHarmless, IncidentInvAccounts DEF OperationsSound
<1>. QED BY <1>1, <1>2, <1>3, PTL DEF PlatformSpec
=============================================================================
