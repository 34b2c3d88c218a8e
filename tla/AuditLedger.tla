---------------------------- MODULE AuditLedger ----------------------------
(* The AuditLedger contract: every entry point of the modelled parts, called *)
(* by anyone, in any order, while ledger time passes.                        *)
EXTENDS LedgerLog, LedgerGovernance

EmptyMap == [x \in {} |-> x]

(* The state initialize leaves: the first listed owner is the primary one,   *)
(* every listed owner is an Admin, RBAC is off.                              *)
Init ==
    \E owners \in OwnerLists :
        /\ now = 0
        /\ order = EmptyMap
        /\ data = EmptyMap
        /\ cfg = [max |-> InitialMaxLogs, total |-> 0]
        /\ rs = [max |-> InitialMaxLogs, total |-> 0, paused |-> FALSE]
        /\ index = [types      |-> [t \in EventType |-> {}],
                    counts     |-> [t \in EventType |-> 0],
                    submitters |-> [s \in Address |-> {}]]
        /\ dedup = [policy |-> "ContentHash", policyFor |-> EmptyMap,
                    content |-> EmptyMap, contentTs |-> EmptyMap, custom |-> EmptyMap]
        /\ rateState = [s \in Address |-> [ts |-> 0, count |-> 0]]
        /\ guard = FALSE
        /\ sigs = {}
        /\ nonces = [state |-> EmptyMap, config |-> EmptyMap,
                     window |-> NonceWindow, max |-> NonceMax]
        /\ versions = EmptyMap
        /\ snaps = <<>>
        /\ access = [paused |-> FALSE, blocked |-> {}, allowMode |-> FALSE,
                     allowed |-> {}, lowCost |-> FALSE]
        /\ limits = [cap |-> EmptyMap, size |-> InitialMaxSize, sizeFor |-> EmptyMap,
                     schema |-> EmptyMap, rate |-> EmptyMap]
        /\ auth = [owner |-> owners[1], owners |-> owners, required |-> 1,
                   roles |-> [a \in {owners[i] : i \in DOMAIN owners} |-> "Admin"],
                   rbac |-> FALSE]
        /\ proposals = <<>>

-----------------------------------------------------------------------------
(* The host: ledger time advances, and an entry left behind in temporary     *)
(* storage is evicted once its time to live has passed.                      *)

Tick ==
    /\ now < MaxTime
    /\ now' = now + 1
    /\ UNCHANGED <<logVars, extraVars, histVars, govVars>>

EvictTemporary ==
    /\ guard
    /\ guard' = FALSE
    /\ UNCHANGED <<now, order, data, cfg, rs, index, dedup, rateState,
                   extraVars, histVars, govVars>>

-----------------------------------------------------------------------------
(* The callers, grouped by what they call.                                   *)

Called(name) == name \in Calls

LogCalls ==
    \E s \in Address, t \in EventType, m \in Metadata, h \in Handle :
        \/ /\ Called("log_event")
           /\ \E cat \in Category, force \in BOOLEAN : log_event(s, t, m, cat, force, h)
        \/ /\ Called("log_event_with_custom_key")
           /\ \E cat \in Category, force \in BOOLEAN, key \in Option(CustomKey) :
                 log_event_with_custom_key(s, t, m, cat, force, h, key)
        \/ /\ Called("log_event_signed")
           /\ log_event_signed(s, t, m, h)
        \/ /\ Called("log_event_with_nonce")
           /\ \E n \in Nonce : log_event_with_nonce(s, t, m, n, h)

BatchCalls ==
    /\ Called("log_events")
    /\ \E items \in Batches : log_events(items)

NonceCalls ==
    \E c, s \in Address :
        \/ /\ Called("set_submitter_nonce_config")
           /\ \E w, n \in Nonce : set_submitter_nonce_config(c, s, w, n)
        \/ /\ Called("reset_submitter_nonce")
           /\ reset_submitter_nonce(c, s)
        \/ /\ Called("set_default_nonce_config")
           /\ \E w, n \in Nonce : set_default_nonce_config(c, w, n)

HistoryCalls ==
    \E c \in Address :
        \/ /\ Called("update_event")
           /\ \E i \in DOMAIN order, m \in Metadata, h \in Handle : update_event(c, i, m, h)
        \/ /\ Called("rollback_event")
           /\ \E i \in DOMAIN order, v \in 0..(MaxVersions - 1), h \in Handle :
                 rollback_event(c, i, v, h)
        \/ /\ Called("create_snapshot")
           /\ create_snapshot(c)
        \/ /\ Called("cleanup_stale_hashes")
           /\ \E start \in DOMAIN order, batch \in 1..rs.total, hs \in [DOMAIN order -> Handle] :
                 cleanup_stale_hashes(c, start, batch, hs)
        \/ /\ Called("cleanup_stale_dedup_entries")
           /\ \E start \in DOMAIN order, batch \in 1..rs.total, hs \in [DOMAIN order -> Handle] :
                 cleanup_stale_dedup_entries(c, start, batch, hs)

AccessCalls ==
    \E c \in Address :
        \/ Called("pause") /\ pause(c)
        \/ Called("unpause") /\ unpause(c)
        \/ Called("enable_allowlist_mode") /\ enable_allowlist_mode(c)
        \/ Called("disable_allowlist_mode") /\ disable_allowlist_mode(c)
        \/ Called("set_low_cost_mode") /\ \E on \in BOOLEAN : set_low_cost_mode(c, on)
        \/ \E s \in Address :
            \/ Called("block_submitter") /\ block_submitter(c, s)
            \/ Called("unblock_submitter") /\ unblock_submitter(c, s)
            \/ Called("allow_submitter") /\ allow_submitter(c, s)
            \/ Called("remove_submitter_from_allowlist")
               /\ remove_submitter_from_allowlist(c, s)

LimitCalls ==
    \E c \in Address :
        \/ Called("set_global_max_logs") /\ \E n \in LogLimit : set_global_max_logs(c, n)
        \/ Called("set_metadata_max_size") /\ \E n \in SizeLimit : set_metadata_max_size(c, n)
        \/ Called("set_submitter_rate_limit")
           /\ \E s \in Address, n \in LogLimit : set_submitter_rate_limit(c, s, n)
        \/ Called("compact_storage")
           /\ \E types \in SUBSET EventType : compact_storage(c, types)
        \/ Called("set_dedup_policy") /\ \E p \in DedupPolicy : set_dedup_policy(c, p)
        \/ \E t \in EventType :
            \/ Called("set_event_max_logs") /\ \E n \in LogLimit : set_event_max_logs(c, t, n)
            \/ Called("remove_event_cap") /\ remove_event_cap(c, t)
            \/ Called("set_event_metadata_max_size")
               /\ \E n \in SizeLimit : set_event_metadata_max_size(c, t, n)
            \/ Called("set_metadata_schema")
               /\ \E n \in SizeLimit : set_metadata_schema(c, t, n)
            \/ Called("set_dedup_policy_for_type")
               /\ \E p \in Option(DedupPolicy) : set_dedup_policy_for_type(c, t, p)

OwnerCalls ==
    \E c \in Address :
        \/ Called("set_required_signatures")
           /\ \E n \in LogLimit : set_required_signatures(c, n)
        \/ Called("enable_rbac") /\ \E on \in BOOLEAN : enable_rbac(c, on)
        \/ \E a \in Address :
            \/ Called("transfer_ownership") /\ transfer_ownership(c, a)
            \/ Called("add_owner") /\ add_owner(c, a)
            \/ Called("remove_owner") /\ remove_owner(c, a)
            \/ Called("set_role") /\ \E r \in Option(Role) : set_role(c, a, r)

ProposalCalls ==
    \E c \in Address :
        \/ Called("submit_proposal")
           /\ \E a \in ProposalActions, ttl \in Ttl : submit_proposal(c, a, ttl)
        \/ \E p \in DOMAIN proposals :
            \/ Called("approve_proposal") /\ approve_proposal(c, p)
            \/ Called("execute_proposal") /\ \E h \in Handle : execute_proposal(c, p, h)

Next ==
    \/ Tick
    \/ EvictTemporary
    \/ LogCalls
    \/ BatchCalls
    \/ NonceCalls
    \/ HistoryCalls
    \/ AccessCalls
    \/ LimitCalls
    \/ OwnerCalls
    \/ ProposalCalls

Spec == Init /\ [][Next]_vars

-----------------------------------------------------------------------------
(* Types.                                                                    *)

EventId == [submitter : Address, symbol : EventType \cup Handle,
            metadata : Metadata, timestamp : Nat, index : Nat]
Hash == Seq(EventId \X Nat \X Nat)
Event == [index : Nat, timestamp : Nat, event_type : EventType,
          category : Category, submitter : Address, metadata : Metadata,
          prev_hash : Hash, event_hash : Hash]
Version == [data : Event, updated_at : Nat, updated_by : Address]
Snapshot == [timestamp : Nat, event_count : Nat, event_hash : Hash]
NonceState == [last : Nat, window : Nat, max : Nat]
Proposal == [proposer : Address, action : ProposalAction, approvals : Seq(Address),
             expires_at : Nat, executed : BOOLEAN]

(* f maps some members of S to members of T.                                 *)
PartialMap(f, S, T) == DOMAIN f \subseteq S /\ \A x \in DOMAIN f : f[x] \in T

(* The event store, and the proposals that may change it.                    *)
StoreTypeOK ==
    /\ now \in Nat
    /\ PartialMap(order, Nat, EventId)
    /\ PartialMap(data, EventId, Event)
    /\ cfg \in [max : Nat, total : Nat]
    /\ rs \in [max : Nat, total : Nat, paused : BOOLEAN]
    /\ PartialMap(versions, Nat, Seq(Version))
    /\ snaps \in Seq(Snapshot)
    /\ proposals \in Seq(Proposal)

(* Everything else the entry points keep.                                    *)
ConfigTypeOK ==
    /\ index.types \in [EventType -> SUBSET Nat]
    /\ index.counts \in [EventType -> Nat]
    /\ index.submitters \in [Address -> SUBSET Nat]
    /\ dedup.policy \in DedupPolicy
    /\ PartialMap(dedup.policyFor, EventType, DedupPolicy)
    /\ PartialMap(dedup.content, (EventType \cup Handle) \X Address \X Metadata, Nat)
    /\ PartialMap(dedup.contentTs, (EventType \cup Handle) \X Address \X Metadata,
                  [index : Nat, ts : Nat])
    /\ PartialMap(dedup.custom, CustomKey, Nat)
    /\ rateState \in [Address -> [ts : Nat, count : Nat]]
    /\ guard \in BOOLEAN
    /\ sigs \subseteq EventId
    /\ PartialMap(nonces.state, Address, NonceState)
    /\ PartialMap(nonces.config, Address, NonceState)
    /\ access \in [paused : BOOLEAN, blocked : SUBSET Address, allowMode : BOOLEAN,
                   allowed : SUBSET Address, lowCost : BOOLEAN]
    /\ PartialMap(limits.cap, EventType, Nat)
    /\ PartialMap(limits.sizeFor, EventType, Nat)
    /\ PartialMap(limits.schema, EventType, Nat)
    /\ PartialMap(limits.rate, Address, Nat)
    /\ auth.owner \in Address /\ auth.owners \in Seq(Address)
    /\ auth.required \in Nat
    /\ PartialMap(auth.roles, Address, Role)

(* Every storage entry has the type the contract reads it back with.         *)
TypeOK == StoreTypeOK /\ ConfigTypeOK

-----------------------------------------------------------------------------
(* The store.                                                                *)

(* An id is the address of the content it was computed from.                 *)
Addresses(id, e) ==
    /\ id.submitter = e.submitter
    /\ id.metadata = e.metadata
    /\ id.timestamp = e.timestamp
    /\ id.index = e.index
    /\ id.symbol = e.event_type \/ e.event_type \in LongType

(* Config, RuntimeState and EventOrder agree on how many events there are,   *)
(* positions have no gap, and the id at each position leads to an event that *)
(* knows its position and has the content the id addresses, however singles, *)
(* batches, updates and rollbacks follow each other.                         *)
StoreConsistent ==
    /\ cfg.total = rs.total
    /\ DOMAIN order = 0..(rs.total - 1)
    /\ \A i \in DOMAIN order :
        /\ order[i] \in DOMAIN data
        /\ EventAt(i).index = i
        /\ Addresses(order[i], EventAt(i))

(* verify_integrity never returns false: every path that stores or replaces  *)
(* an event leaves each prev_hash and event_hash equal to what re-deriving   *)
(* the chain gives.                                                          *)
ChainIntact == verify_integrity

(* What the event at position k contributes to the chain, and the first n    *)
(* contributions.                                                            *)
LinkAt(k) == Link(order[k], k, EventAt(k).timestamp)
Links(n) == [k \in 1..n |-> LinkAt(k - 1)]

(* An event's hash commits to the ids and timestamps of all events up to it, *)
(* and to nothing else, so an observer who keeps one hash has pinned the     *)
(* whole log before it.                                                      *)
HashCommitsToPrefix ==
    \A i \in DOMAIN order : /\ EventAt(i).prev_hash = Links(i)
                            /\ EventAt(i).event_hash = Links(i + 1)

(* The log never holds more events than the maximum in force, whoever raises *)
(* or lowers that maximum meanwhile.                                         *)
WithinGlobalMax == rs.total <= rs.max

(* Positions follow time: update_event and rollback_event keep the original  *)
(* timestamp, so the drift check of later calls stays meaningful.            *)
TimestampsOrdered ==
    \A i, j \in DOMAIN order :
        i <= j => /\ EventAt(i).timestamp <= EventAt(j).timestamp
                  /\ EventAt(j).timestamp <= now

-----------------------------------------------------------------------------
(* History.                                                                  *)

(* What no amendment may touch.                                              *)
Identity(e) == <<e.index, e.timestamp, e.event_type, e.category, e.submitter>>

(* The newest version in an event's history has the content now stored at    *)
(* its position, and all versions are of that same event.                    *)
HistoryFaithful ==
    \A i \in DOMAIN versions :
        /\ i \in DOMAIN order
        /\ Len(versions[i]) > 1
        /\ versions[i][Len(versions[i])].data.metadata = EventAt(i).metadata
        /\ \A v \in DOMAIN versions[i] :
              Identity(versions[i][v].data) = Identity(EventAt(i))

(* The event at position i is still there; a step that gave it another id    *)
(* appended exactly one version to its history and kept the older ones, any  *)
(* other step kept its content and its history.                              *)
Traced(i) ==
    LET before == get_event_history(i)
        after  == get_event_history(i)'
    IN  /\ i \in DOMAIN order'
        /\ Identity(EventAt(i)') = Identity(EventAt(i))
        /\ IF order'[i] = order[i]
           THEN /\ EventAt(i)'.metadata = EventAt(i).metadata
                /\ Len(after) = Len(before)
           ELSE /\ Len(after) = Len(before) + 1
                /\ \A v \in DOMAIN before :
                      after[v].data.metadata = before[v].data.metadata

(* No event disappears or changes silently, whichever entry point or         *)
(* executed proposal amends it.                                              *)
ChangesLeaveTrace == [][\A i \in DOMAIN order : Traced(i)]_vars

(* A snapshot verifies exactly as long as no event it covers was amended to  *)
(* another id: the last event's hash alone pins the whole prefix, because    *)
(* every amendment rehashes all later events.                                *)
SnapshotPinsPrefix ==
    \A k \in DOMAIN snaps :
        LET snap == snaps[k]
        IN  /\ snap.event_count <= rs.total
            /\ Len(snap.event_hash) = snap.event_count
            /\ verify_snapshot(snap) <=>
                  \A i \in 0..(snap.event_count - 1) : snap.event_hash[i + 1][1] = order[i]

-----------------------------------------------------------------------------
(* Indexes and caps.                                                         *)

EventsOfType(t) == {i \in DOMAIN order : EventAt(i).event_type = t}
EventsOf(s) == {i \in DOMAIN order : EventAt(i).submitter = s}

(* An index entry never points at another type's or another submitter's      *)
(* event, or beyond the log: compaction, low-cost mode and amendments only   *)
(* lose or keep entries.                                                     *)
IndexSound ==
    /\ \A t \in EventType : index.types[t] \subseteq EventsOfType(t)
    /\ \A s \in Address : index.submitters[s] \subseteq EventsOf(s)

(* As long as the index of a type is complete, no step logs past its cap,    *)
(* batches that hold several events of the type included.                    *)
CapRespected ==
    [][\A t \in DOMAIN limits.cap :
        /\ index.types[t] = EventsOfType(t)
        /\ EventsOfType(t)' # EventsOfType(t)
        => Cardinality(EventsOfType(t)') <= limits.cap[t]]_vars

(* What a single-event call stores was admissible when it was stored: not    *)
(* paused, submitter neither blocked nor left out of the allowlist, holding  *)
(* the role RBAC asks for, within the rate, metadata within limits.          *)
AdmissionEnforced ==
    [][\A i \in DOMAIN order' \ DOMAIN order :
        LET e == EventAt(i)'
        IN  /\ ~access.paused
            /\ e.submitter \notin access.blocked
            /\ access.allowMode => e.submitter \in access.allowed
            /\ auth.rbac => RoleOf(e.submitter) # "Viewer"
            /\ e.submitter \in DOMAIN limits.rate =>
                  rateState'[e.submitter].count \in 1..limits.rate[e.submitter]
            /\ MetadataAllowed(e.event_type, e.metadata)]_vars

-----------------------------------------------------------------------------
(* Deduplication and nonces.                                                 *)

(* e is an event whose content hash can be c.                                *)
HasContent(e, c) ==
    \E h \in Handle : c = compute_content_hash(e.event_type, e.submitter, e.metadata, h)

(* A deduplication entry always leads to a position whose event was logged   *)
(* with that very content, through forced duplicates, amendments, policy     *)
(* changes and clean-ups.                                                    *)
DedupSound ==
    /\ \A c \in DOMAIN dedup.content :
        /\ dedup.content[c] \in DOMAIN order
        /\ HasContent(get_event_history(dedup.content[c])[1].data, c)
    /\ \A c \in DOMAIN dedup.contentTs :
        LET e == dedup.contentTs[c]
        IN  /\ e.index \in DOMAIN order
            /\ HasContent(get_event_history(e.index)[1].data, c)
            /\ EventAt(e.index).timestamp = e.ts

Content(e) == <<e.event_type, e.submitter, e.metadata>>

(* Without force, the same content is stored once, whichever entry point     *)
(* retries it and however much time passes.                                  *)
NoDuplicateContent ==
    \A i, j \in DOMAIN order : Content(EventAt(i)) = Content(EventAt(j)) => i = j

(* The last nonce accepted from a submitter who has no configuration of its  *)
(* own only grows, through changed defaults and configurations that came and *)
(* went, except that an owner's reset brings it back to 0.                   *)
NonceNeverReused ==
    [][\A s \in Address \ DOMAIN nonces.config :
        \/ StoredNonce(s)'.last >= StoredNonce(s).last
        \/ StoredNonce(s)'.last = 0]_vars

-----------------------------------------------------------------------------
(* Proposals.                                                                *)

Approvers(p) == {proposals[p].approvals[i] : i \in DOMAIN proposals[p].approvals}

(* A proposal is executed only once, before it expires, when as many         *)
(* different owners as the threshold asks for have approved it; from then on *)
(* it never changes.                                                         *)
ExecutionNeedsQuorum ==
    [][\A p \in DOMAIN proposals :
        /\ p \in DOMAIN proposals'
        /\ proposals[p].executed => proposals'[p] = proposals[p]
        /\ ~proposals[p].executed /\ proposals'[p].executed =>
              /\ Cardinality(Approvers(p)) >= auth.required
              /\ now <= proposals[p].expires_at]_vars

-----------------------------------------------------------------------------
(* Statements of the repository's comments that the code does not keep: each *)
(* one is violated by a run of its own.                                      *)

(* lib.rs, log_event: "Temporary storage is scoped to the current            *)
(* transaction". The reentrancy guard is gone when a call has returned.      *)
GuardScopedToCall == ~guard

(* lib.rs, pause: "Pause write operations". Nothing is logged while paused.  *)
PausedLogsNothing == [][access.paused => rs'.total = rs.total]_vars

-----------------------------------------------------------------------------
(* The contract's storage, read as the log it promises: EventOrder,          *)
(* EventData and the version lists give the entries, the hash in a snapshot  *)
(* gives the list it pins.                                                   *)

(* The entry at position i, with its versions as get_event_history gives it. *)
EntryAt(i) ==
    LET e == EventAt(i)
        history == get_event_history(i)
    IN  [who      |-> e.submitter,
         when     |-> e.timestamp,
         kind     |-> <<e.event_type, e.category>>,
         versions |-> [v \in DOMAIN history |-> history[v].data.metadata]]

LogView == [k \in 1..rs.total |-> EntryAt(k - 1)]

(* What the hash of a snapshot commits to: the ids of the events before it.  *)
PinView(snap) ==
    [k \in 1..snap.event_count |->
        [who  |-> snap.event_hash[k][1].submitter,
         when |-> snap.event_hash[k][1].timestamp,
         what |-> snap.event_hash[k][1].metadata]]

Promise == INSTANCE AmendableLog WITH
    Payload <- Metadata,
    log     <- LogView,
    pins    <- [k \in DOMAIN snaps |-> PinView(snaps[k])]

(* The contract implements the amendable log: whatever singles, batches,     *)
(* updates, rollbacks and snapshots follow each other, each call maps to one *)
(* step of the abstract log or to none, so no version and no pinned prefix   *)
(* is ever rewritten.                                                        *)
ImplementsAmendableLog == Promise!Spec
=============================================================================
