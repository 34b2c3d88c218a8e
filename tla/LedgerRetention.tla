-------------------------- MODULE LedgerRetention --------------------------
(* Retention policies, legal holds, compliance exceptions, erasure requests, *)
(* the retention sweep and the operational log (src/src/data_retention.rs).  *)
(* Erasure replaces an event's metadata by the empty one with update_event.  *)
EXTENDS AuditLedger

CONSTANTS
    NoMetadata,      \* the empty payload
    RetentionDays,   \* retention periods callers set, in units of the clock
    MaxRequests      \* erasure requests filed

ASSUME RetentionAssumption ==
    /\ NoMetadata \in Metadata /\ SizeOf[NoMetadata] = 0
    /\ "operational" \in Category
    /\ RetentionDays \subseteq Nat
    /\ MaxRequests \in Nat

VARIABLE ret
(* [policy : RetentionPolicy(category), default : DefaultRetentionDays       *)
(*  holds : LegalHold(i).active, exceptions : ComplianceException(i), its    *)
(*  expiry, requests : ErasureRequest(k), erased : ErasureRecord(i), the     *)
(*  metadata whose digest it keeps, recorders : OpsAuditRecorders]           *)

ErasureStatus == {"Pending", "Fulfilled", "Denied"}

RetentionInit ==
    ret = [policy |-> EmptyMap, default |-> 0, holds |-> EmptyMap,
           exceptions |-> EmptyMap, requests |-> <<>>, erased |-> EmptyMap,
           recorders |-> {}]

Operational(i) == EventAt(i).category = "operational"

-----------------------------------------------------------------------------
(* Policies.                                                                 *)

set_retention_policy(c, category, days) ==
    /\ require_owner_or_multisig(c)
    /\ days # 0
    /\ ret' = [ret EXCEPT !.policy = Put(@, category, days)]
    /\ UNCHANGED vars

set_default_retention_days(c, days) ==
    /\ require_owner_or_multisig(c)
    /\ ret' = [ret EXCEPT !.default = days]
    /\ UNCHANGED vars

retention_days_for(category) == GetOr(ret.policy, category, ret.default)

(* Past its retention period; a period of zero never ends.                   *)
Overdue(i) ==
    LET days == retention_days_for(EventAt(i).category)
    IN  days # 0 /\ now - EventAt(i).timestamp > days

-----------------------------------------------------------------------------
(* Holds and exceptions. The reason callers must give is not modelled.       *)

place_legal_hold(c, i) ==
    /\ require_owner_or_multisig(c)
    /\ i < rs.total
    /\ ret' = [ret EXCEPT !.holds = Put(@, i, TRUE)]
    /\ UNCHANGED vars

is_under_legal_hold(i) == GetOr(ret.holds, i, FALSE)

release_legal_hold(c, i) ==
    /\ require_owner_or_multisig(c)
    /\ is_under_legal_hold(i)
    /\ ret' = [ret EXCEPT !.holds = Put(@, i, FALSE)]
    /\ UNCHANGED vars

grant_compliance_exception(c, i, expires_at) ==
    /\ require_owner_or_multisig(c)
    /\ i < rs.total
    /\ ret' = [ret EXCEPT !.exceptions = Put(@, i, expires_at)]
    /\ UNCHANGED vars

revoke_compliance_exception(c, i) ==
    /\ require_owner_or_multisig(c)
    /\ ret' = [ret EXCEPT !.exceptions = Drop(@, i)]
    /\ UNCHANGED vars

has_active_compliance_exception(i) ==
    i \in DOMAIN ret.exceptions /\ (ret.exceptions[i] = 0 \/ ret.exceptions[i] > now)

Protected(i) == is_under_legal_hold(i) \/ has_active_compliance_exception(i)

-----------------------------------------------------------------------------
(* Erasure on request.                                                       *)

is_event_erased(i) == i \in DOMAIN ret.erased

request_erasure(i) ==
    /\ i < rs.total
    /\ ~Operational(i)
    /\ ~is_event_erased(i)
    /\ Len(ret.requests) < MaxRequests
    /\ ret' = [ret EXCEPT !.requests =
                  Append(@, [index |-> i, status |-> "Pending"])]
    /\ UNCHANGED vars

Decided(k, status) == [ret EXCEPT !.requests[k].status = status]

(* Approval redacts the event and keeps the digest of what it redacted.      *)
ApproveErasure(c, k, h) ==
    LET i == ret.requests[k].index
    IN  /\ ~Operational(i)
        /\ ~Protected(i)
        /\ ret' = [Decided(k, "Fulfilled") EXCEPT !.erased = Put(@, i, EventAt(i).metadata)]
        /\ update_event(c, i, NoMetadata, h)

DenyErasure(k) ==
    /\ ret' = Decided(k, "Denied")
    /\ UNCHANGED vars

process_erasure_request(c, k, approve, h) ==
    /\ require_owner_or_multisig(c)
    /\ ret.requests[k].status = "Pending"
    /\ IF approve THEN ApproveErasure(c, k, h) ELSE DenyErasure(k)

-----------------------------------------------------------------------------
(* The sweep: update_event for each position it erases, in ascending order.  *)

(* Faulty variant: the sweep forgets that holds exist.                       *)
ErasableDespiteHold(i) ==
    /\ ~Operational(i) /\ ~is_event_erased(i)
    /\ Overdue(i) /\ ~has_active_compliance_exception(i)

Erasable(i) ==
    /\ ~Operational(i)
    /\ ~is_event_erased(i)
    /\ Overdue(i)
    /\ ~Protected(i)

(* How the report of a batch counts the event at position i. It tests anew   *)
(* what the sweep tests.                                                     *)
verify_retention_compliance(i) ==
    IF Operational(i) THEN "compliant"
    ELSE IF is_event_erased(i) THEN "already_erased"
    ELSE IF ~Overdue(i) THEN "compliant"
    ELSE IF is_under_legal_hold(i) THEN "overdue_blocked_hold"
    ELSE IF has_active_compliance_exception(i) THEN "overdue_blocked_exception"
    ELSE "overdue_erasable"

(* Ids after redacting the positions in E; an event that is empty already    *)
(* keeps its id and is not rewritten.                                        *)
RedactedId(i, hs) == IdOf(Updated(i, NoMetadata), i, hs[i])
SweptOrder(E, hs) == [i \in DOMAIN order |-> IF i \in E THEN RedactedId(i, hs) ELSE order[i]]

(* The chain over the swept ids from position f to k.                        *)
SweptHash(E, hs, f, k) ==
    PrevHash(f) \o [n \in 1..(k - f + 1) |->
        Link(SweptOrder(E, hs)[f + n - 1], f + n - 1, EventAt(f + n - 1).timestamp)]

(* The event e, stored under id at position k, hashed onto the swept chain.  *)
OnSweptChain(E, hs, f, k, e, id) ==
    LET prev == SweptHash(E, hs, f, k - 1)
    IN  [e EXCEPT !.prev_hash = prev,
                  !.event_hash = compute_event_hash(id, prev, k, e.timestamp)]

(* EventData and histories once the positions in E, of which f is the first, *)
(* were redacted one after the other: replaced events keep the hash they had *)
(* when their turn came.                                                     *)
Sweep(c, E, hs) ==
    LET f       == CHOOSE i \in E : \A j \in E : i <= j
        redacted(i) == OnSweptChain(E, hs, f, i, Updated(i, NoMetadata), RedactedId(i, hs))
        former(i) == IF i = f THEN EventAt(i) ELSE OnSweptChain(E, hs, f, i, EventAt(i), order[i])
        history(i) == IF i \in DOMAIN versions THEN versions[i]
                      ELSE <<[data |-> former(i), updated_at |-> EventAt(i).timestamp,
                              updated_by |-> EventAt(i).submitter]>>
        new     == {RedactedId(i, hs) : i \in E}
    IN  /\ \A i \in E : Len(history(i)) < MaxVersions
        /\ order' = SweptOrder(E, hs)
        /\ data' = [id \in DOMAIN data \cup new |->
                      IF id \in new THEN redacted(id.index)
                      ELSE IF id.index \in f..(rs.total - 1) /\ order[id.index] = id
                      THEN former(id.index)
                      ELSE data[id]]
        /\ versions' = [i \in DOMAIN versions \cup E |->
                          IF i \in E THEN Append(history(i), VersionOf(c, redacted(i)))
                          ELSE versions[i]]

run_retention_sweep(c, start, batch, hs) ==
    LET E == {i \in start..(start + batch - 1) : i < rs.total /\ Erasable(i)}
        changed == {i \in E : RedactedId(i, hs) # order[i]}
    IN  /\ require_owner_or_multisig(c)
        /\ \A i \in E : MetadataAllowed(EventAt(i).event_type, NoMetadata)
        /\ ret' = [ret EXCEPT !.erased =
                      [i \in DOMAIN @ \cup E |-> IF i \in E THEN EventAt(i).metadata ELSE @[i]]]
        /\ IF changed = {} THEN UNCHANGED <<order, data, versions>>
           ELSE Sweep(c, changed, hs)
        /\ UNCHANGED <<now, cfg, rs, index, dedup, rateState, guard,
                       extraVars, snaps, govVars>>

-----------------------------------------------------------------------------
(* The operational log.                                                      *)

is_addr_ops_recorder(a) == is_addr_owner(a) \/ a \in ret.recorders

add_ops_recorder(c, a) ==
    /\ require_owner_or_multisig(c)
    /\ ret' = [ret EXCEPT !.recorders = @ \cup {a}]
    /\ UNCHANGED vars

remove_ops_recorder(c, a) ==
    /\ require_owner_or_multisig(c)
    /\ ret' = [ret EXCEPT !.recorders = @ \ {a}]
    /\ UNCHANGED vars

log_operational_action(c, t, m, h) ==
    /\ is_addr_ops_recorder(c)
    /\ log_event(c, t, m, "operational", TRUE, h)
    /\ UNCHANGED ret

-----------------------------------------------------------------------------
RetentionCalls ==
    \/ \E i \in DOMAIN order : Called("request_erasure") /\ request_erasure(i)
    \/ \E c \in Address :
        \/ /\ Called("set_retention_policy")
           /\ \E cat \in Category, d \in RetentionDays : set_retention_policy(c, cat, d)
        \/ /\ Called("set_default_retention_days")
           /\ \E d \in RetentionDays : set_default_retention_days(c, d)
        \/ /\ Called("process_erasure_request")
           /\ \E k \in DOMAIN ret.requests, approve \in BOOLEAN, h \in Handle :
                 process_erasure_request(c, k, approve, h)
        \/ /\ Called("run_retention_sweep")
           /\ \E start \in DOMAIN order, batch \in 1..rs.total, hs \in [DOMAIN order -> Handle] :
                 run_retention_sweep(c, start, batch, hs)
        \/ /\ Called("log_operational_action")
           /\ \E t \in EventType, m \in Metadata, h \in Handle :
                 log_operational_action(c, t, m, h)
        \/ \E a \in Address :
            \/ Called("add_ops_recorder") /\ add_ops_recorder(c, a)
            \/ Called("remove_ops_recorder") /\ remove_ops_recorder(c, a)
        \/ \E i \in DOMAIN order :
            \/ Called("place_legal_hold") /\ place_legal_hold(c, i)
            \/ Called("release_legal_hold") /\ release_legal_hold(c, i)
            \/ Called("grant_compliance_exception")
               /\ \E e \in 0..MaxTime : grant_compliance_exception(c, i, e)
            \/ Called("revoke_compliance_exception") /\ revoke_compliance_exception(c, i)

-----------------------------------------------------------------------------
(* Every erasure was allowed when it happened: no step records the erasure   *)
(* of an event that is on hold, excepted or operational at that moment, even *)
(* when the hold came after the request; and it either fulfils a pending     *)
(* request for that event or the event's retention period is over.           *)
ErasuresSanctioned ==
    [][\A i \in DOMAIN ret'.erased :
          (i \notin DOMAIN ret.erased \/ ret'.erased[i] # ret.erased[i]) =>
            /\ ~is_under_legal_hold(i)
            /\ ~has_active_compliance_exception(i)
            /\ ~Operational(i)
            /\ \/ Overdue(i)
               \/ \E k \in DOMAIN ret.requests :
                    /\ ret.requests[k] = [index |-> i, status |-> "Pending"]
                    /\ ret'.requests[k].status = "Fulfilled"]_<<vars, ret>>

(* Auditors can check a redaction: the digest an erasure record keeps is     *)
(* that of some version in the event's history, whatever updates, rollbacks, *)
(* sweeps and further requests followed; and the compliance report announces *)
(* as erasable what the sweep erases.                                        *)
ErasureVerifiable ==
    /\ \A i \in DOMAIN ret.erased :
        \E v \in DOMAIN get_event_history(i) :
            get_event_history(i)[v].data.metadata = ret.erased[i]
    /\ \A i \in DOMAIN order :
        verify_retention_compliance(i) = "overdue_erasable" <=> Erasable(i)

(* data_retention.rs: "the original metadata's SHA-256 digest is preserved   *)
(* in an `ErasureRecordData`": once recorded it does not change.             *)
OriginalDigestPreserved ==
    [][\A i \in DOMAIN ret.erased :
          i \in DOMAIN ret'.erased /\ ret'.erased[i] = ret.erased[i]]_<<vars, ret>>
=============================================================================
