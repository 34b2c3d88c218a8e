---------------------------- MODULE PlatformHost ----------------------------
(* What the domain modules of the contract share: the ledger clock, accounts *)
(* and keyed storage. A call is one atomic step and a panic reverts it, so a *)
(* call that panics is not enabled; a call that returns without writing is   *)
(* a stuttering step and not an action. Hashes are the tuples they digest.   *)
EXTENDS Integers, Sequences, FiniteSets, SequencesExt

CONSTANTS
    Account,     \* addresses that call
    Label,       \* names and identifiers that callers choose
    Amount,      \* amounts, weights and scores that callers pass
    Day,         \* length of a day on the model's clock, 86400 in the code
    MaxClock,    \* the clock stops here
    MaxRecords   \* records of one kind

ASSUME PlatformAssumption ==
    /\ Amount \subseteq Nat
    /\ Day \in Nat \ {0}
    /\ {MaxClock, MaxRecords} \subseteq Nat

VARIABLE clock   \* ledger timestamp

EmptyMap == [x \in {} |-> x]

(* storage.set(key, value); get(key).unwrap_or(default).                     *)
Put(f, k, v) == [x \in DOMAIN f \cup {k} |-> IF x = k THEN v ELSE f[x]]
GetOr(f, k, default) == IF k \in DOMAIN f THEN f[k] ELSE default

(* A list under a key: get(key).unwrap_or(empty), push_back, set.            *)
PushTo(f, k, v) == Put(f, k, Append(GetOr(f, k, <<>>), v))

ListUnder(f, k) == GetOr(f, k, <<>>)

(* Optional values.                                                          *)
None == {}
Some(x) == {x}
The(option) == CHOOSE x \in option : TRUE

(* The sum of val over a set of keys.                                        *)
Total(val, keys) == SumFunctionOnSet(val, keys)

(* Signed integer division rounds toward zero.                               *)
Quotient(a, b) == IF a < 0 THEN -((-a) \div b) ELSE a \div b
=============================================================================
