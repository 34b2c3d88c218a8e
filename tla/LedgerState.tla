---------------------------- MODULE LedgerState ----------------------------
(* The storage of the AuditLedger contract (src/src/lib.rs), its hashes and  *)
(* its authorisation checks: what every entry point reads.                   *)
(*                                                                           *)
(* A contract call is one atomic step: a panic reverts every write of the    *)
(* transaction, so a call that panics is an action that is not enabled.      *)
(* Hashes are free terms: two of them are equal only if their preimages are. *)
(* Optional values are partial functions (a storage key that may be absent)  *)
(* or sets of at most one element (an Option argument).                      *)
EXTENDS Integers, Sequences, FiniteSets

CONSTANTS
    Address,        \* accounts: owners, submitters, anyone who calls
    EventType,      \* event type Symbols
    LongType,       \* those with more than nine characters
    Handle,         \* host object handles a long Symbol may get in a call
    Metadata,       \* metadata payloads
    SizeOf,         \* their length in bytes
    Category,       \* event categories
    CustomKey,      \* keys for the Custom deduplication policy
    OwnerLists,     \* the owner lists the deployer may initialize with
    InitialMaxLogs, \* global_max_logs given to initialize
    InitialMaxSize, \* max_metadata_bytes given to initialize
    NonceWindow,    \* default nonce window (1000 in the contract)
    NonceMax,       \* default largest nonce (u32::MAX in the contract)
    MaxDrift        \* MAX_TIMESTAMP_DRIFT_SECONDS

(* What an instance lets callers do: the entry points they use and the      *)
(* values they pass. The theorems hold for every choice.                     *)
CONSTANTS
    Calls,           \* names of the entry points that are called
    LogLimit,        \* global maxima, per-type caps, rate limits, signatures
    SizeLimit,       \* metadata size limits and schema minimum lengths
    Nonce,           \* nonces, nonce windows and nonce maxima
    Ttl,             \* proposal lifetimes
    ProposalActions, \* governance actions that are proposed
    Batches          \* argument lists of log_events

(* Bounds that keep the state space finite.                                  *)
CONSTANTS
    MaxTime,      \* the clock stops here
    MaxVersions,  \* versions of one event
    MaxSnapshots, \* snapshots taken
    MaxProposals  \* proposals submitted

Role == {"Admin", "Auditor", "Submitter", "Viewer"}
DedupPolicy == {"None", "ContentHash", "ContentHashWithTimestamp", "Custom"}

(* One event of a batch: the tuple log_events takes, with the host handle   *)
(* its event type has during the call.                                       *)
Item == [submitter : Address, event_type : EventType,
         metadata : Metadata, handle : Handle]

(* ProposalAction.                                                           *)
ProposalAction ==
    [kind : {"TransferOwnership", "AddOwner", "RemoveOwner"}, addr : Address]
    \cup [kind : {"SetRequiredSignatures", "SetGlobalMaxLogs"}, value : Nat]
    \cup [kind : {"SetMetadataSchema"}, event_type : EventType, min_len : Nat]
    \cup [kind : {"RollbackEvent"}, index : Nat, target : Nat]
    \cup [kind : {"Pause", "Unpause"}]

ASSUME TypesAssumption ==
    /\ LongType \subseteq EventType
    /\ Handle \cap EventType = {}
    /\ SizeOf \in [Metadata -> Nat]
    /\ "general" \in Category

ASSUME DeployAssumption ==
    /\ OwnerLists \subseteq Seq(Address) \ {<<>>}
    /\ InitialMaxLogs \in Nat
    /\ InitialMaxSize \in Nat
    /\ NonceWindow \in Nat
    /\ NonceMax \in Nat
    /\ MaxDrift \in Nat

ASSUME InputsAssumption ==
    /\ LogLimit \subseteq Nat
    /\ SizeLimit \subseteq Nat
    /\ Nonce \subseteq Nat
    /\ Ttl \subseteq Nat
    /\ ProposalActions \subseteq ProposalAction
    /\ Batches \subseteq Seq(Item)

ASSUME BoundsAssumption ==
    {MaxTime, MaxVersions, MaxSnapshots, MaxProposals} \subseteq Nat

VARIABLES
    now,        \* ledger timestamp
    order,      \* EventOrder(i): position -> event id
    data,       \* EventData(id): event id -> Event, superseded ids included
    cfg,        \* Config: [max, total]
    rs,         \* RuntimeState, the part that is read: [max, total, paused]
    index,      \* EventTypeIndices, EventTypeCount, SubmitterEventIndices
    dedup,      \* deduplication policies and the maps they keep
    rateState,  \* SubmitterRateState: [ts, count] per submitter
    guard,      \* LogEventReentrancyGuard is present in temporary storage
    sigs,       \* EventSignature: the ids that carry a signature
    nonces,     \* SubmitterNonce, SubmitterNonceConfig, the nonce defaults
    versions,   \* EventVersions(i): position -> version history
    snaps,      \* SnapshotData, in creation order
    access,     \* Paused, blocklist, allowlist, low-cost mode
    limits,     \* caps, metadata sizes, schemas, rate limits
    auth,       \* Owner, Owners, RequiredSignatures, Role, RbacEnabled
    proposals   \* Proposal(id), in submission order

logVars   == <<order, data, cfg, rs, index, dedup, rateState, guard>>
extraVars == <<sigs, nonces>>
histVars  == <<versions, snaps>>
govVars   == <<access, limits, auth, proposals>>
vars == <<now, logVars, extraVars, histVars, govVars>>

-----------------------------------------------------------------------------
(* Storage access.                                                           *)

(* storage.set(key, value) on a map whose keys may be absent.                *)
Put(f, k, v) == [x \in DOMAIN f \cup {k} |-> IF x = k THEN v ELSE f[x]]

(* storage.remove(key).                                                      *)
Drop(f, k) == [x \in DOMAIN f \ {k} |-> f[x]]

(* storage.get(key).unwrap_or(default).                                      *)
GetOr(f, k, default) == IF k \in DOMAIN f THEN f[k] ELSE default

(* Option<T> as an argument.                                                 *)
Option(S) == {{}} \cup {{x} : x \in S}

-----------------------------------------------------------------------------
(* Hashes.                                                                   *)

(* The eight bytes that stand for an event type in a hash preimage. A short  *)
(* Symbol is its own value; a long one is a host object, and its payload is  *)
(* the handle the object has in the current call.                            *)
SymbolPayload(t, h) == IF t \in LongType THEN h ELSE t

compute_event_id(s, t, m, ts, i, h) ==
    [submitter |-> s, symbol |-> SymbolPayload(t, h), metadata |-> m,
     timestamp |-> ts, index |-> i]

compute_content_hash(t, s, m, h) == <<SymbolPayload(t, h), s, m>>

(* The all-zero hash that precedes the first event.                          *)
Genesis == <<>>

(* An event hash is the list of what was hashed into the chain so far, so    *)
(* sha256(id || prev || index || timestamp) appends one link.                *)
Link(id, i, ts) == <<id, i, ts>>
compute_event_hash(id, prev, i, ts) == Append(prev, Link(id, i, ts))

-----------------------------------------------------------------------------
(* Reading the log.                                                          *)

EventAt(i) == data[order[i]]

(* event_hash of the event before position i.                                *)
PrevHash(i) == IF i = 0 THEN Genesis ELSE EventAt(i - 1).event_hash

(* event_type_count: packed index bytes / 4.                                 *)
event_type_count(t) == Cardinality(index.types[t])

-----------------------------------------------------------------------------
(* Authorisation.                                                            *)

Rank == [Admin |-> 4, Auditor |-> 3, Submitter |-> 2, Viewer |-> 1]

RoleOf(a) == GetOr(auth.roles, a, "Viewer")

require_role_min(a, min) == auth.rbac => Rank[RoleOf(a)] >= Rank[min]

Listed(a) == \E i \in DOMAIN auth.owners : auth.owners[i] = a

is_addr_owner(a) == Listed(a) \/ a = auth.owner

require_owner_or_multisig(a) ==
    IF auth.rbac THEN require_role_min(a, "Admin") ELSE is_addr_owner(a)

-----------------------------------------------------------------------------
(* Effective configuration.                                                  *)

effective_metadata_max_size(t) == GetOr(limits.sizeFor, t, limits.size)

effective_dedup_policy(t) == GetOr(dedup.policyFor, t, dedup.policy)

(* The size and schema checks shared by logging and updating.                *)
MetadataAllowed(t, m) ==
    /\ SizeOf[m] <= effective_metadata_max_size(t)
    /\ t \in DOMAIN limits.schema => SizeOf[m] >= limits.schema[t]
=============================================================================
