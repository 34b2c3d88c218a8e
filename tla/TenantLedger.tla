---------------------------- MODULE TenantLedger ----------------------------
(* The ledgers of tenants: life cycle, administrators, limits and events     *)
(* (src/src/multi_tenant.rs). A payload is given by its length.              *)
EXTENDS PlatformHost

CONSTANTS
    Tenant,      \* ids of tenants
    TenantType   \* event types

VARIABLE tenants
(* [ids : TenantIds, config : TenantConfig(t), admins : TenantAdmin(t, a),   *)
(*  caps : TenantCapConfig(t, type), rates : TenantRateState(t, a), order :  *)
(*  TenantEventOrder(t, n), data : TenantEventData(t, id), indices :         *)
(*  TenantTypeIndices(t, type), last : TenantPrevHash(t)]                    *)

TenantStatus == {"Active", "Suspended", "Archived", "Deleted"}

(* max_events and rate_limit 0 mean no limit, max_metadata 0 means 1024.     *)
TenantConfig == [creator : Account, status : TenantStatus, max_events : Amount \cup {0},
                 max_metadata : (Amount \ {0}) \cup {1024}, rate_limit : Amount \cup {0},
                 total_events : 0..MaxRecords]

TenantEventId == Tenant \X Account \X TenantType \X Amount \X (0..MaxClock)
NoTenantEvent == <<>>

TenantEvent == [index : 0..MaxRecords, timestamp : 0..MaxClock, event_type : TenantType,
                submitter : Account, event_id : TenantEventId,
                prev_hash : TenantEventId \cup {NoTenantEvent}]

TenantInit ==
    tenants = [ids |-> <<>>, config |-> EmptyMap, admins |-> {}, caps |-> EmptyMap,
               rates |-> EmptyMap, order |-> EmptyMap, data |-> EmptyMap,
               indices |-> EmptyMap, last |-> EmptyMap]

EffectiveMaxMetadata(bytes) == IF bytes = 0 THEN 1024 ELSE bytes

initialize_tenant(caller, t, max_events, max_metadata, rate_limit) ==
    /\ t \notin DOMAIN tenants.config
    /\ tenants' = [tenants EXCEPT
          !.config = Put(@, t, [creator |-> caller, status |-> "Active",
                                max_events |-> max_events,
                                max_metadata |-> EffectiveMaxMetadata(max_metadata),
                                rate_limit |-> rate_limit, total_events |-> 0]),
          !.admins = @ \cup {<<t, caller>>},
          !.ids = Append(@, t),
          !.last = Put(@, t, NoTenantEvent)]

require_tenant_admin(t, caller) == <<t, caller>> \in tenants.admins

Status(t) == tenants.config[t].status
Moves(t, status) == tenants' = [tenants EXCEPT !.config[t].status = status]

(* Repeating the call that led to a status returns without a change.         *)
suspend_tenant(caller, t) ==
    require_tenant_admin(t, caller) /\ Status(t) = "Active" /\ Moves(t, "Suspended")

resume_tenant(caller, t) ==
    require_tenant_admin(t, caller) /\ Status(t) = "Suspended" /\ Moves(t, "Active")

archive_tenant(caller, t) ==
    /\ require_tenant_admin(t, caller)
    /\ Status(t) \in {"Active", "Suspended"}
    /\ Moves(t, "Archived")

(* Deleting marks the tenant: its data, list entry and name stay taken.      *)
delete_tenant(caller, t, force) ==
    /\ require_tenant_admin(t, caller)
    /\ Status(t) = "Archived"
    /\ force \/ tenants.config[t].total_events = 0
    /\ Moves(t, "Deleted")

add_tenant_admin(caller, t, new_admin) ==
    /\ require_tenant_admin(t, caller)
    /\ Status(t) # "Deleted"
    /\ tenants' = [tenants EXCEPT !.admins = @ \cup {<<t, new_admin>>}]

(* Also the last administrator, who may be the caller.                       *)
remove_tenant_admin(caller, t, admin) ==
    /\ require_tenant_admin(t, caller)
    /\ Status(t) # "Deleted"
    /\ tenants' = [tenants EXCEPT !.admins = @ \ {<<t, admin>>}]

(* The new limit may be below the number of events there are.                *)
update_tenant_config(caller, t, max_events, max_metadata, rate_limit) ==
    /\ require_tenant_admin(t, caller)
    /\ Status(t) # "Deleted"
    /\ tenants' = [tenants EXCEPT
          !.config[t].max_events = max_events,
          !.config[t].max_metadata = EffectiveMaxMetadata(max_metadata),
          !.config[t].rate_limit = rate_limit]

set_tenant_type_cap(caller, t, type, cap) ==
    /\ require_tenant_admin(t, caller)
    /\ Status(t) # "Deleted"
    /\ tenants' = [tenants EXCEPT !.caps =
          IF cap = 0 THEN [k \in DOMAIN @ \ {<<t, type>>} |-> @[k]] ELSE Put(@, <<t, type>>, cap)]

compute_tenant_event_id(t, submitter, type, metadata) ==
    <<t, submitter, type, metadata, clock>>

get_tenant_type_count(t, type) == Len(ListUnder(tenants.indices, <<t, type>>))

(* What a submitter has sent in this ledger; without a limit it is not kept. *)
RateUsed(t, submitter) ==
    LET rate == GetOr(tenants.rates, <<t, submitter>>, [at |-> 0, count |-> 0])
    IN  IF rate.at = clock THEN rate.count ELSE 0

(* Faulty variant: the event is indexed by its position in its type.         *)
IndexedByType(t, type) ==
    PushTo(tenants.indices, <<t, type>>, get_tenant_type_count(t, type))

(* The type's index with the event that comes next.                          *)
IndexedNext(t, type) ==
    PushTo(tenants.indices, <<t, type>>, tenants.config[t].total_events)

(* Anyone may log. The same content in the same ledger has the same id: its  *)
(* record is replaced, and linked to itself.                                 *)
log_tenant_event(submitter, t, type, metadata) ==
    LET config == tenants.config[t]
        id     == compute_tenant_event_id(t, submitter, type, metadata)
        index  == config.total_events
    IN  /\ config.status = "Active"
        /\ config.max_events = 0 \/ config.total_events < config.max_events
        /\ metadata <= config.max_metadata
        /\ <<t, type>> \in DOMAIN tenants.caps
              => get_tenant_type_count(t, type) < tenants.caps[<<t, type>>]
        /\ config.rate_limit = 0 \/ RateUsed(t, submitter) < config.rate_limit
        /\ index < MaxRecords
        /\ tenants' = [tenants EXCEPT
              !.rates = IF config.rate_limit = 0 THEN @
                        ELSE Put(@, <<t, submitter>>,
                                 [at |-> clock, count |-> RateUsed(t, submitter) + 1]),
              !.data = Put(@, <<t, id>>,
                           [index |-> index, timestamp |-> clock, event_type |-> type,
                            submitter |-> submitter, event_id |-> id,
                            prev_hash |-> tenants.last[t]]),
              !.order = Put(@, <<t, index>>, id),
              !.last[t] = id,
              !.indices = IndexedNext(t, type),
              !.config[t].total_events = index + 1]

(* Reads, which a deleted tenant refuses.                                    *)
get_tenant_event_by_index(t, n) == tenants.data[<<t, tenants.order[<<t, n>>]>>]
get_tenant_event_by_type(t, type, n) ==
    get_tenant_event_by_index(t, tenants.indices[<<t, type>>][n + 1])
tenant_accessible(t) == t \in DOMAIN tenants.config /\ Status(t) \in {"Active", "Suspended"}

TenantNext ==
    \/ \E c \in Account, t \in Tenant, v, r \in Amount \cup {0} : initialize_tenant(c, t, v, 0, r)
    \/ \E t \in DOMAIN tenants.config, c \in Account :
        \/ suspend_tenant(c, t) \/ resume_tenant(c, t) \/ archive_tenant(c, t)
        \/ \E force \in BOOLEAN : delete_tenant(c, t, force)
        \/ \E a \in Account : add_tenant_admin(c, t, a) \/ remove_tenant_admin(c, t, a)
        \/ \E v, r \in Amount \cup {0} : update_tenant_config(c, t, v, v, r)
        \/ \E type \in TenantType, v \in Amount \cup {0} : set_tenant_type_cap(c, t, type, v)
        \/ \E type \in TenantType, v \in Amount : log_tenant_event(c, t, type, v)

TenantTypeOK ==
    /\ \A t \in DOMAIN tenants.config : tenants.config[t] \in TenantConfig
    /\ \A k \in DOMAIN tenants.data : tenants.data[k] \in TenantEvent

-----------------------------------------------------------------------------
(* Tenants (multi_tenant.rs log_tenant_event): each tenant's order names     *)
(* every event of its own and none of another's; the indexes of its types    *)
(* share out the whole order: each position is listed under the type of its  *)
(* event, once, ascending, and under no other; and each stored event is      *)
(* linked to the one before its last position.                               *)
TenantsIsolated ==
    /\ DOMAIN tenants.order =
          UNION {{t} \X (0..tenants.config[t].total_events - 1) : t \in DOMAIN tenants.config}
    /\ \A k \in DOMAIN tenants.order :
          /\ tenants.order[k][1] = k[1]
          /\ LET type == get_tenant_event_by_index(k[1], k[2]).event_type
             IN  \E i \in DOMAIN ListUnder(tenants.indices, <<k[1], type>>) :
                    tenants.indices[<<k[1], type>>][i] = k[2]
    /\ \A k \in DOMAIN tenants.indices : \A i, j \in DOMAIN tenants.indices[k] :
          /\ i < j => tenants.indices[k][i] < tenants.indices[k][j]
          /\ <<k[1], tenants.indices[k][i]>> \in DOMAIN tenants.order
          /\ get_tenant_event_by_type(k[1], k[2], i - 1).event_type = k[2]
    /\ \A k \in DOMAIN tenants.data :
        LET e == tenants.data[k]
        IN  /\ tenants.order[<<k[1], e.index>>] = e.event_id
            /\ e.prev_hash = IF e.index = 0 THEN NoTenantEvent
                             ELSE tenants.order[<<k[1], e.index - 1>>]
=============================================================================
