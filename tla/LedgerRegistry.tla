--------------------------- MODULE LedgerRegistry ---------------------------
(* What src/src/lib.rs keeps beside the log: version tags and diffs, the     *)
(* schema registry, webhook registrations, and the persistent copies of      *)
(* events whose time to live the host ends.                                  *)
EXTENDS AuditLedger

CONSTANTS
    Tag,            \* version tags
    SchemaFormat,   \* schema formats
    Definition,     \* schema definitions
    RequiredOf,     \* the required field names of a definition, in its order
    Url,            \* webhook endpoints
    TtlLedgers,     \* times to live callers set
    MaxHooks,       \* webhook entries of one event type
    MaxSchema,      \* schema versions
    MaxCount        \* reads and clean-ups counted

ASSUME RegistryAssumption ==
    /\ DOMAIN RequiredOf = Definition
    /\ TtlLedgers \subseteq Nat
    /\ {MaxHooks, MaxSchema, MaxCount} \subseteq Nat

VARIABLES
    tags,       \* EventVersionTag(i, version)
    schemas,    \* [listed : SchemaVersions(t), stored : EventSchema(t, v),
                \*  paths : EventSchemaMigration(t, from, to)]
    hooks,      \* WebhookRegistrations(t), the urls
    ttl         \* [ledgers : EventTtl, live : ids with a persistent copy,
                \*  runs, extensions, cleaned : TtlCleanupStats]

registryVars == <<tags, schemas, hooks, ttl>>

RegistryInit ==
    /\ tags = EmptyMap
    /\ schemas = [listed |-> [t \in EventType |-> <<>>], stored |-> EmptyMap, paths |-> {}]
    /\ hooks = [t \in EventType |-> <<>>]
    /\ ttl = [ledgers |-> 0, live |-> {}, runs |-> 0, extensions |-> 0, cleaned |-> 0]

-----------------------------------------------------------------------------
(* Versions.                                                                 *)

tag_event_version(c, i, v, tag) ==
    /\ require_owner_or_multisig(c)
    /\ i < rs.total
    /\ v < Len(get_event_history(i))
    /\ tags' = Put(tags, <<i, v>>, tag)
    /\ UNCHANGED <<vars, schemas, hooks, ttl>>

Compared == {"metadata", "event_type", "category", "submitter", "timestamp"}

(* The fields that differ between two versions of an event. The version of   *)
(* the contract that wrote an event is the same for all.                     *)
get_event_diff(i, v, w) ==
    LET from == get_event_history(i)[v + 1].data
        to   == get_event_history(i)[w + 1].data
    IN  {f \in Compared : from[f] # to[f]}

-----------------------------------------------------------------------------
(* Schemas.                                                                  *)

Schema == [format : SchemaFormat, version : 1..MaxSchema, definition : Definition]

(* Faulty variant: a new version is listed last, wherever it belongs.        *)
AppendVersion(vs, v) == IF \E k \in DOMAIN vs : vs[k] = v THEN vs ELSE Append(vs, v)

(* insert_u32_sorted, unless contains_u32.                                   *)
InsertVersion(vs, v) ==
    IF \E k \in DOMAIN vs : vs[k] = v THEN vs
    ELSE LET below == {k \in DOMAIN vs : vs[k] <= v}
             n     == Cardinality(below)
         IN  SubSeq(vs, 1, n) \o <<v>> \o SubSeq(vs, n + 1, Len(vs))

register_schema(c, t, schema) ==
    /\ ~access.paused
    /\ require_owner_or_multisig(c)
    /\ schemas' = [schemas EXCEPT
                    !.listed[t] = InsertVersion(@, schema.version),
                    !.stored = Put(@, <<t, schema.version>>, schema)]
    /\ UNCHANGED <<vars, tags, hooks, ttl>>

(* Neither version needs to be registered.                                   *)
migrate_event_metadata(c, t, from, to) ==
    /\ ~access.paused
    /\ require_owner_or_multisig(c)
    /\ from # to
    /\ schemas' = [schemas EXCEPT !.paths = @ \cup {<<t, from, to>>}]
    /\ UNCHANGED <<vars, tags, hooks, ttl>>

contains_all(left, right) ==
    \A k \in DOMAIN right : \E j \in DOMAIN left : left[j] = right[k]

check_schema_compatibility(left, right) ==
    LET l == RequiredOf[left.definition]
        r == RequiredOf[right.definition]
    IN  IF left.format # right.format THEN "Breaking"
        ELSE IF l = r THEN "Full"
        ELSE IF contains_all(l, r) /\ ~contains_all(r, l) THEN "Backward"
        ELSE IF contains_all(r, l) /\ ~contains_all(l, r) THEN "Forward"
        ELSE IF left.version # right.version THEN "Breaking"
        ELSE "Unknown"

is_backward_compatible(left, right) ==
    check_schema_compatibility(left, right) \in {"Full", "Backward"}

is_forward_compatible(left, right) ==
    check_schema_compatibility(left, right) \in {"Full", "Forward"}

-----------------------------------------------------------------------------
(* Webhooks.                                                                 *)

require_owner(c) == c = auth.owner

register_webhook(c, t, url) ==
    /\ require_owner(c)
    /\ Len(hooks[t]) < MaxHooks
    /\ hooks' = [hooks EXCEPT ![t] = Append(@, url)]
    /\ UNCHANGED <<vars, tags, schemas, ttl>>

(* Removes the first entry with that url.                                    *)
WithoutFirst(s, x) ==
    LET hits == {k \in DOMAIN s : s[k] = x}
    IN  IF hits = {} THEN s
        ELSE LET k == CHOOSE k \in hits : \A j \in hits : k <= j
             IN  SubSeq(s, 1, k - 1) \o SubSeq(s, k + 1, Len(s))

unregister_webhook(c, t, url) ==
    /\ require_owner(c)
    /\ hooks' = [hooks EXCEPT ![t] = WithoutFirst(@, url)]
    /\ UNCHANGED <<vars, tags, schemas, ttl>>

-----------------------------------------------------------------------------
(* Time to live.                                                             *)

set_event_ttl(c, n) ==
    /\ ~access.paused
    /\ require_owner_or_multisig(c)
    /\ ttl' = [ttl EXCEPT !.ledgers = n]
    /\ UNCHANGED <<vars, tags, schemas, hooks>>

(* The single-event calls also store a persistent copy; the batch, updates   *)
(* and rollbacks do not.                                                     *)
PersistLogged ==
    ttl' = IF ttl.ledgers > 0
           THEN [ttl EXCEPT !.live = @ \cup {id \in DOMAIN data' : id.index \notin DOMAIN order}]
           ELSE ttl

(* The host evicts a persistent copy whose time to live has ended.           *)
EvictPersistent(id) ==
    /\ id \in ttl.live
    /\ ttl' = [ttl EXCEPT !.live = @ \ {id}]
    /\ UNCHANGED <<vars, tags, schemas, hooks>>

(* A read keeps the persistent copy alive and counts that it did.            *)
get_event(id) ==
    /\ ttl.ledgers > 0 /\ id \in ttl.live
    /\ ttl.extensions < MaxCount
    /\ ttl' = [ttl EXCEPT !.extensions = @ + 1]
    /\ UNCHANGED <<vars, tags, schemas, hooks>>

(* Every current event without a persistent copy counts as expired.          *)
cleanup_expired_events(c, start, batch) ==
    LET missing == {i \in start..(start + batch - 1) :
                       i < rs.total /\ order[i] \notin ttl.live}
    IN  /\ require_owner_or_multisig(c)
        /\ ttl.ledgers # 0
        /\ ttl.runs < MaxCount
        /\ ttl' = [ttl EXCEPT !.runs = @ + 1, !.cleaned = @ + Cardinality(missing)]
        /\ UNCHANGED <<vars, tags, schemas, hooks>>

-----------------------------------------------------------------------------
RegistryCalls ==
    \/ \E c \in Address :
        \/ /\ Called("tag_event_version")
           /\ \E i \in DOMAIN order, v \in 0..(MaxVersions - 1), tag \in Tag :
                 tag_event_version(c, i, v, tag)
        \/ /\ Called("set_event_ttl")
           /\ \E n \in TtlLedgers : set_event_ttl(c, n)
        \/ /\ Called("cleanup_expired_events")
           /\ \E start \in DOMAIN order, batch \in 1..rs.total :
                 cleanup_expired_events(c, start, batch)
        \/ \E t \in EventType :
            \/ /\ Called("register_schema")
               /\ \E schema \in Schema : register_schema(c, t, schema)
            \/ /\ Called("migrate_event_metadata")
               /\ \E from, to \in 1..MaxSchema : migrate_event_metadata(c, t, from, to)
            \/ /\ Called("register_webhook")
               /\ \E url \in Url : register_webhook(c, t, url)
            \/ /\ Called("unregister_webhook")
               /\ \E url \in Url : unregister_webhook(c, t, url)
    \/ \E id \in ttl.live :
        \/ Called("get_event") /\ get_event(id)
        \/ EvictPersistent(id)

-----------------------------------------------------------------------------
(* A tag never dangles: updates, rollbacks and sweeps only add versions, so  *)
(* the version a tag was attached to stays readable; and any two versions of *)
(* an event differ at most in their metadata, which is what a diff shows.    *)
TagsStayReadable ==
    /\ \A iv \in DOMAIN tags : iv[1] < rs.total /\ iv[2] < Len(get_event_history(iv[1]))
    /\ \A i \in DOMAIN order :
        \A v, w \in 0..(Len(get_event_history(i)) - 1) :
            get_event_diff(i, v, w) \subseteq {"metadata"}

(* The list of versions of an event type is ascending, without repetition,   *)
(* and names exactly the stored schemas, in whatever order and however often *)
(* versions are registered; compatibility mirrors: one schema is backward    *)
(* compatible with another iff that one is forward compatible with it.       *)
SchemasListed ==
    \A t \in EventType :
        LET vs == schemas.listed[t]
            of(v) == schemas.stored[<<t, v>>]
        IN  /\ \A j, k \in DOMAIN vs : j < k => vs[j] < vs[k]
            /\ {vs[k] : k \in DOMAIN vs} = {v \in 1..MaxSchema : <<t, v>> \in DOMAIN schemas.stored}
            /\ \A j, k \in DOMAIN vs :
                  is_backward_compatible(of(vs[j]), of(vs[k]))
                    <=> is_forward_compatible(of(vs[k]), of(vs[j]))
=============================================================================
