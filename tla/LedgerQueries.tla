--------------------------- MODULE LedgerQueries ---------------------------
(* The read-only entry points of src/src/lib.rs: lookups, pages of the log   *)
(* through its indexes and by scanning, statistics and version comparison.   *)
(* A page of more than 100 events is refused; a query of the metadata is the *)
(* set of payloads that contain the searched bytes.                          *)
EXTENDS AuditLedger
LOCAL INSTANCE SequencesExt

Least(a, b) == IF a < b THEN a ELSE b

(* Positions in ascending order, as a scan or a packed index meets them.     *)
Ascending(positions) == SetToSortSeq(positions, LAMBDA i, j : i < j)

EventsAt(positions) == [k \in DOMAIN positions |-> EventAt(positions[k])]

-----------------------------------------------------------------------------
(* Lookups by id and by position.                                            *)

HeaderFields(e) ==
    [index |-> e.index, timestamp |-> e.timestamp,
     event_type |-> e.event_type, submitter |-> e.submitter]

get_event_header(id) == HeaderFields(data[id])
get_event_metadata(id) == data[id].metadata
get_event_by_order(i) == EventAt(i)

-----------------------------------------------------------------------------
(* Pages.                                                                    *)

(* Faulty variant: the last event found is never shown.                      *)
PagedShort(found, offset, limit) ==
    IF limit = 0 \/ offset >= Len(found) THEN <<>>
    ELSE SubSeq(found, offset + 1, Least(offset + limit, Len(found) - 1))

(* The common tail of the paged queries: empty past the end, else cut off at *)
(* the number of events found.                                               *)
Paged(found, offset, limit) ==
    IF limit = 0 \/ offset >= Len(found) THEN <<>>
    ELSE SubSeq(found, offset + 1, Least(offset + limit, Len(found)))

list_events(offset, limit) == Paged(EventsAt(Ascending(DOMAIN order)), offset, limit)

get_events_by_time_range(from, to, offset, limit) ==
    LET found == {i \in DOMAIN order : EventAt(i).timestamp \in from..to}
    IN  Paged(EventsAt(Ascending(found)), offset, limit)

search_events(containing, offset, limit) ==
    LET found == {i \in DOMAIN order : EventAt(i).metadata \in containing}
    IN  Paged(EventsAt(Ascending(found)), offset, limit)

(* Here the offset is a position of the log, not a number of matches.        *)
list_events_by_category(category, start, limit) ==
    LET found == Ascending({i \in DOMAIN order :
                               i >= start /\ EventAt(i).category = category})
    IN  [k \in 1..Least(limit, Len(found)) |-> HeaderFields(EventAt(found[k]))]

event_count_by_category(category) ==
    Cardinality({i \in DOMAIN order : EventAt(i).category = category})

-----------------------------------------------------------------------------
(* Pages through the packed indexes. In low-cost mode a type's events are    *)
(* not served.                                                               *)

get_type_index(t, k) == Ascending(index.types[t])[k + 1]
get_event_by_type(t, k) == EventAt(get_type_index(t, k))

get_events_by_type(t, start, limit) ==
    Paged([k \in 1..event_type_count(t) |-> get_event_by_type(t, k - 1)], start, limit)

TypeServed(t) == ~access.lowCost \/ event_type_count(t) = 0

submitter_count(s) == Cardinality(index.submitters[s])
get_submitter_index(s, k) == Ascending(index.submitters[s])[k + 1]
get_event_by_submitter(s, k) == EventAt(get_submitter_index(s, k))

get_events_by_submitter(s, start, limit) ==
    Paged([k \in 1..submitter_count(s) |-> get_event_by_submitter(s, k - 1)], start, limit)

-----------------------------------------------------------------------------
(* The event deduplication has on record for a content, as it is now.        *)
find_event_by_content(t, s, m, h) ==
    LET c == compute_content_hash(t, s, m, h)
    IN  IF c \in DOMAIN dedup.content THEN {EventAt(dedup.content[c])} ELSE {}

(* Pairs of a value and how often it occurs, in order of first occurrence.   *)
Tally(values) ==
    LET first == {i \in DOMAIN values : \A j \in 1..(i - 1) : values[j] # values[i]}
        at    == Ascending(first)
    IN  [k \in DOMAIN at |->
            <<values[at[k]], Cardinality({i \in DOMAIN values : values[i] = values[at[k]]})>>]

WithinLast(window) == Cardinality({i \in DOMAIN order : now - EventAt(i).timestamp <= window})

(* hour, day and week are 3600, 86400 and 604800 seconds in the contract.    *)
collect_statistics(hour, day, week) ==
    LET log == EventsAt(Ascending(0..(cfg.total - 1)))
    IN  [total_events     |-> cfg.total,
         events_by_type   |-> Tally([k \in DOMAIN log |-> log[k].event_type]),
         top_submitters   |-> Tally([k \in DOMAIN log |-> log[k].submitter]),
         events_last_hour |-> WithinLast(hour),
         events_last_day  |-> WithinLast(day),
         events_last_week |-> WithinLast(week)]

get_event_audit_trail(i) ==
    IF i >= rs.total THEN <<>>
    ELSE IF i \in DOMAIN versions THEN versions[i]
    ELSE <<[data |-> EventAt(i), updated_at |-> EventAt(i).timestamp,
            updated_by |-> EventAt(i).submitter]>>

(* -1, 0 or 1 as the metadata of version a is shorter, as long or longer.    *)
compare_event_versions(i, a, b) ==
    LET size(v) == SizeOf[get_event_history(i)[v + 1].data.metadata]
    IN  IF size(a) < size(b) THEN -1 ELSE IF size(a) > size(b) THEN 1 ELSE 0

-----------------------------------------------------------------------------
(* Reading pages of n events one after the other gives found, once each and  *)
(* in order, and then nothing.                                               *)
Tiles(page(_, _), found, n) ==
    /\ \A k \in DOMAIN found : LET p == page(((k - 1) \div n) * n, n)
                                   at == ((k - 1) % n) + 1
                               IN  at \in DOMAIN p /\ p[at] = found[k]
    /\ \A offset \in 0..(Len(found) + 1) :
          Len(page(offset, n)) <= n /\ (offset >= Len(found) => page(offset, n) = <<>>)

(* The pages of one kind, for pages of n events.                             *)
PagesComplete(n) ==
    /\ Tiles(list_events, [k \in 1..rs.total |-> get_event_by_order(k - 1)], n)
    /\ Tiles(LAMBDA o, l : get_events_by_time_range(0, now, o, l), list_events(0, rs.total), n)
    /\ Tiles(LAMBDA o, l : search_events(Metadata, o, l), list_events(0, rs.total), n)
    /\ \A t \in EventType : TypeServed(t) =>
          Tiles(LAMBDA o, l : get_events_by_type(t, o, l),
                EventsAt(Ascending(EventsOfType(t) \cap index.types[t])), n)
    /\ \A s \in Address :
          Tiles(LAMBDA o, l : get_events_by_submitter(s, o, l),
                EventsAt(Ascending(EventsOf(s) \cap index.submitters[s])), n)

(* A category's headers from a position on are those of its events there.    *)
CategoriesListed ==
    \A category \in Category, start \in DOMAIN order :
        LET listed == list_events_by_category(category, start, rs.total)
        IN  /\ start = 0 => Len(listed) = event_count_by_category(category)
            /\ \A i \in DOMAIN order : i >= start /\ EventAt(i).category = category =>
                  \E k \in DOMAIN listed : listed[k] = get_event_header(order[i])

StatisticsCountOnce ==
    LET stats == collect_statistics(0, 1, MaxTime)
    IN  /\ stats.total_events = rs.total
        /\ \A t \in EventType : EventsOfType(t) # {} =>
              \E k \in DOMAIN stats.events_by_type :
                 stats.events_by_type[k] = <<t, Cardinality(EventsOfType(t))>>
        /\ \A s \in Address : EventsOf(s) # {} =>
              \E k \in DOMAIN stats.top_submitters :
                 stats.top_submitters[k] = <<s, Cardinality(EventsOf(s))>>
        /\ stats.events_last_hour <= stats.events_last_day
        /\ stats.events_last_week = rs.total

(* A trail ends in the current event and orders versions as their sizes are. *)
TrailsCurrent ==
    \A i \in DOMAIN order :
        LET trail == get_event_audit_trail(i)
        IN  /\ trail[Len(trail)].data.metadata = get_event_metadata(order[i])
            /\ \A a, b \in 0..(Len(trail) - 1) :
                  compare_event_versions(i, a, b) = -compare_event_versions(i, b, a)

(* Whatever was logged, amended, compacted or left unindexed in low-cost     *)
(* mode: pages of the log, a time range or a search show every event once    *)
(* and in order; pages of a type or a submitter show only its events, and    *)
(* all the index holds; the statistics count each event once under its type  *)
(* and its submitter; a content that is found leads to an event first logged *)
(* with it; and an audit trail ends in the current event.                    *)
QueriesAgree ==
    /\ \A n \in {1, 2} : PagesComplete(n)
    /\ CategoriesListed
    /\ StatisticsCountOnce
    /\ \A t \in EventType, s \in Address, m \in Metadata, h \in Handle :
        \A e \in find_event_by_content(t, s, m, h) :
            HasContent(get_event_audit_trail(e.index)[1].data, compute_content_hash(t, s, m, h))
    /\ TrailsCurrent
=============================================================================
