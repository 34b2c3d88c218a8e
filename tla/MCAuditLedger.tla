--------------------------- MODULE MCAuditLedger ---------------------------
(* Small instances of AuditLedger for TLC.                                   *)
EXTENDS LedgerQueries

CONSTANTS o1, o2, s1, t1, t2, m1, m2, k1, k2, h1, h2

(* m1 is the empty payload, m2 a non-empty one.                              *)
SizeByName == [m \in Metadata |-> IF m = m1 THEN 0 ELSE 2]

OneOwner == {<<o1>>}
TwoOwners == {<<o1, o2>>}

Entry(s, t, m) == [submitter |-> s, event_type |-> t, metadata |-> m, handle |-> h1]

(* Two events of one type; two events of different types; one event.         *)
PairBatch == {<<Entry(o1, t1, m1), Entry(o1, t1, m2)>>}
MixedBatch == PairBatch \cup {<<Entry(o1, t1, m1), Entry(o1, t2, m1)>>}
SingleBatch == {<<Entry(o1, t1, m2)>>}

(* One proposal of each kind.                                                *)
AnyAction ==
    {[kind |-> "TransferOwnership", addr |-> o2], [kind |-> "AddOwner", addr |-> o2],
     [kind |-> "RemoveOwner", addr |-> o2], [kind |-> "SetRequiredSignatures", value |-> 2],
     [kind |-> "SetGlobalMaxLogs", value |-> 2], [kind |-> "Pause"], [kind |-> "Unpause"],
     [kind |-> "SetMetadataSchema", event_type |-> t1, min_len |-> 1],
     [kind |-> "RollbackEvent", index |-> 0, target |-> 0]}

(* An amendment and a threshold, each decided by proposal.                   *)
SomeActions ==
    {[kind |-> "SetRequiredSignatures", value |-> 2],
     [kind |-> "RollbackEvent", index |-> 0, target |-> 0]}

(* The settings that no longer have the value the contract started with.     *)
OpenAccess == [paused |-> FALSE, blocked |-> {}, allowMode |-> FALSE,
               allowed |-> {}, lowCost |-> FALSE]
NoLimits == [cap |-> EmptyMap, size |-> InitialMaxSize, sizeFor |-> EmptyMap,
             schema |-> EmptyMap, rate |-> EmptyMap]
SoleOwner == [owner |-> o1, owners |-> <<o1>>, required |-> 1]
DefaultNonces == [state |-> EmptyMap, config |-> EmptyMap,
                  window |-> NonceWindow, max |-> NonceMax]
Departed(s, initial) == {f \in DOMAIN initial : s[f] # initial[f]}
Departures ==
    Departed(access, OpenAccess) \cup Departed(limits, NoLimits)
    \cup Departed(nonces, DefaultNonces)
    \cup Departed(dedup, [policy |-> "ContentHash", policyFor |-> EmptyMap,
                          custom |-> EmptyMap])
    \cup (IF guard THEN {"guard"} ELSE {})
    \cup (IF rs.max = InitialMaxLogs THEN {} ELSE {"limit"})
    \cup (IF auth.rbac THEN {"rbac"} ELSE {})
    \cup (IF auth.roles = [a \in {o1} |-> "Admin"] THEN {} ELSE {"roles"})
    \cup (IF Departed(auth, SoleOwner) = {} /\ proposals = <<>> THEN {} ELSE {"owners"})

(* An action constraint for the run with every call: settings change one at  *)
(* a time and while the log is short; o1 alone logs, signed when the log     *)
(* grows one by one to two events.                                           *)
ShortLog == rs.total <= 1 /\ now = 0 /\ snaps = <<>> /\ sigs = {}
Undecided == proposals = <<>> /\ versions = EmptyMap
OneSettingAtATime ==
    /\ index'.submitters[o2] = {}
    /\ rs.total = 1 /\ rs'.total = 2 => Cardinality(sigs') = 2
    /\ order' = order => ShortLog' \/ <<index', dedup'>> = <<index, dedup>>
    /\ Cardinality(Departures') <= 1
    /\ Departures' # {} =>
          /\ ShortLog'
          /\ Undecided' \/ <<auth'.owner, auth'.owners>> = <<o1, <<o1, o2>>>>
=============================================================================
