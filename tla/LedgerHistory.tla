--------------------------- MODULE LedgerHistory ---------------------------
(* What may happen to a stored event: update_event, rollback_event, their    *)
(* version history, the hash chain they rebuild, the chain verification,     *)
(* snapshots, and the clean-up of deduplication entries.                     *)
EXTENDS LedgerState

-----------------------------------------------------------------------------
(* Version history.                                                          *)

(* get_event_history: an event that never changed has its stored form as     *)
(* version 0. A version's number is its place in the list.                   *)
get_event_history(i) ==
    IF i \in DOMAIN versions THEN versions[i]
    ELSE <<[data |-> EventAt(i), updated_at |-> EventAt(i).timestamp,
            updated_by |-> EventAt(i).submitter]>>

(* The same event with the chain fields it has at position i under id.       *)
Rehashed(e, id, i) ==
    [e EXCEPT !.prev_hash = PrevHash(i),
              !.event_hash = compute_event_hash(id, PrevHash(i), i, e.timestamp)]

(* The hash of the event at position j once the event at position i has the  *)
(* hash h: the loop over later events hashes their links onto it in turn.    *)
ChainFrom(h, i, j) ==
    h \o [n \in 1..(j - i) |-> Link(order[i + n], i + n, EventAt(i + n).timestamp)]

(* Faulty variant: the loop stops before the last event.                     *)
RewiredShort(h, i) ==
    [id \in DOMAIN data |->
        IF id.index \in (i + 1)..(rs.total - 2) /\ order[id.index] = id
        THEN [data[id] EXCEPT !.prev_hash = ChainFrom(h, i, id.index - 1),
                              !.event_hash = ChainFrom(h, i, id.index)]
        ELSE data[id]]

(* Faulty variant: no loop, later events keep the hashes they have.          *)
RewiredNever(h, i) == data

(* EventData after that loop. The id of a current event carries its position.*)
Rewired(h, i) ==
    [id \in DOMAIN data |->
        IF id.index \in (i + 1)..(rs.total - 1) /\ order[id.index] = id
        THEN [data[id] EXCEPT !.prev_hash = ChainFrom(h, i, id.index - 1),
                              !.event_hash = ChainFrom(h, i, id.index)]
        ELSE data[id]]

VersionOf(c, e) == [data |-> e, updated_at |-> now, updated_by |-> c]

(* Faulty variant: the version records the event that was replaced.          *)
HistoryWithOld(c, i, new) ==
    Append(get_event_history(i), VersionOf(c, EventAt(i)))

(* Faulty variant: only the original and the newest version are kept.        *)
HistoryTruncated(c, i, new) == <<get_event_history(i)[1], VersionOf(c, new)>>

(* The history of position i once c has made new its current event.          *)
HistoryWith(c, i, new) == Append(get_event_history(i), VersionOf(c, new))

(* Replace the event at position i by e, stored under id.                    *)
Amend(c, i, e, id) ==
    LET new == Rehashed(e, id, i)
    IN  /\ Len(get_event_history(i)) < MaxVersions
        /\ versions' = Put(versions, i, HistoryWith(c, i, new))
        /\ data' = Put(Rewired(new.event_hash, i), id, new)
        /\ order' = [order EXCEPT ![i] = id]

IdOf(e, i, h) ==
    compute_event_id(e.submitter, e.event_type, e.metadata, e.timestamp, i, h)

(* Faulty variant: the timestamp of the update replaces the event's own.     *)
UpdatedNow(i, m) == [EventAt(i) EXCEPT !.metadata = m, !.timestamp = now]

(* update_event changes only the metadata.                                   *)
Updated(i, m) == [EventAt(i) EXCEPT !.metadata = m]

(* rollback_event restores the whole event recorded by the target version.   *)
Restored(i, target) == get_event_history(i)[target + 1].data

(* Nothing is written when the id does not change.                           *)
AmendIfNew(c, i, e, h) ==
    IF IdOf(e, i, h) = order[i]
    THEN UNCHANGED <<versions, data, order>>
    ELSE Amend(c, i, e, IdOf(e, i, h))

UpdateEffect(c, i, m, h) ==
    /\ require_owner_or_multisig(c)
    /\ i < rs.total
    /\ MetadataAllowed(EventAt(i).event_type, m)
    /\ AmendIfNew(c, i, Updated(i, m), h)

RollbackEffect(c, i, target, h) ==
    /\ require_owner_or_multisig(c)
    /\ i < rs.total
    /\ target < Len(get_event_history(i))
    /\ AmendIfNew(c, i, Restored(i, target), h)

update_event(c, i, m, h) ==
    /\ UpdateEffect(c, i, m, h)
    /\ UNCHANGED <<now, cfg, rs, index, dedup, rateState, guard,
                   extraVars, snaps, govVars>>

rollback_event(c, i, target, h) ==
    /\ RollbackEffect(c, i, target, h)
    /\ UNCHANGED <<now, cfg, rs, index, dedup, rateState, guard,
                   extraVars, snaps, govVars>>

-----------------------------------------------------------------------------
(* Verification.                                                             *)

(* verify_range(from, to): links and hashes of the positions from..to-1.     *)
verify_range(from, to) ==
    /\ from > 0 => from - 1 \in DOMAIN order /\ order[from - 1] \in DOMAIN data
    /\ \A i \in from..(to - 1) :
        /\ i \in DOMAIN order
        /\ order[i] \in DOMAIN data
        /\ EventAt(i).prev_hash = PrevHash(i)
        /\ EventAt(i).event_hash =
             compute_event_hash(order[i], EventAt(i).prev_hash, i, EventAt(i).timestamp)

verify_integrity == verify_range(0, rs.total)

-----------------------------------------------------------------------------
(* Snapshots.                                                                *)

(* Faulty variant: takes the last position for the number of events.         *)
SnapshotOfLastIndex ==
    [timestamp |-> now, event_count |-> rs.total - 1,
     event_hash |-> PrevHash(rs.total)]

SnapshotNow ==
    [timestamp |-> now, event_count |-> rs.total, event_hash |-> PrevHash(rs.total)]

create_snapshot(c) ==
    /\ require_owner_or_multisig(c)
    /\ Len(snaps) < MaxSnapshots
    /\ snaps' = Append(snaps, SnapshotNow)
    /\ UNCHANGED <<now, logVars, extraVars, versions, govVars>>

verify_snapshot(snap) ==
    /\ snap.event_count <= rs.total
    /\ snap.event_hash = PrevHash(snap.event_count)

-----------------------------------------------------------------------------
(* Clean-up of deduplication entries.                                        *)

(* Content hashes, as the scan of positions start..start+batch-1 computes    *)
(* them (hs gives the handle each event type has there), for which a map     *)
(* records another position: pos is that map, reduced to its positions. The  *)
(* scan removes an entry as soon as it meets it.                             *)
Mismatched(pos, start, batch, hs) ==
    {c \in DOMAIN pos :
        \E i \in start..(start + batch - 1) :
            /\ i < rs.total
            /\ c = compute_content_hash(EventAt(i).event_type, EventAt(i).submitter,
                                        EventAt(i).metadata, hs[i])
            /\ pos[c] # i}

Without(map, keys) == [c \in DOMAIN map \ keys |-> map[c]]

StaleContent(start, batch, hs) == Mismatched(dedup.content, start, batch, hs)
StaleContentTs(start, batch, hs) ==
    Mismatched([c \in DOMAIN dedup.contentTs |-> dedup.contentTs[c].index],
               start, batch, hs)

cleanup_stale_hashes(c, start, batch, hs) ==
    /\ require_owner_or_multisig(c)
    /\ dedup' = [dedup EXCEPT !.content = Without(@, StaleContent(start, batch, hs))]
    /\ UNCHANGED <<now, order, data, cfg, rs, index, rateState, guard,
                   extraVars, histVars, govVars>>

cleanup_stale_dedup_entries(c, start, batch, hs) ==
    /\ require_owner_or_multisig(c)
    /\ dedup' = [dedup EXCEPT
                  !.content = Without(@, StaleContent(start, batch, hs)),
                  !.contentTs = Without(@, StaleContentTs(start, batch, hs))]
    /\ UNCHANGED <<now, order, data, cfg, rs, index, rateState, guard,
                   extraVars, histVars, govVars>>
=============================================================================
