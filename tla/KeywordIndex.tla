---------------------------- MODULE KeywordIndex ----------------------------
(* The inverted index over event metadata (src/src/inverted_index.rs), which *)
(* no entry point of the contract calls yet: buckets of event positions by   *)
(* keyword, re-indexing, and the older index by fields. A metadata text is   *)
(* the list of its words between delimiters, lowercased, and the list of its *)
(* key=value fields. A bucket key, a hash, is the keyword itself.            *)
EXTENDS PlatformHost

CONSTANTS
    Text,        \* metadata: [words, fields]
    LengthOf,    \* length in bytes of each word
    CutOf,       \* what the token buffer keeps of each word
    TokenBuffer, \* its size, and DEFAULT_MAX_KEYWORD_LEN: both 32 in the code
    MinKeyword,  \* DEFAULT_MIN_KEYWORD_LEN
    StopWord,    \* STOP_WORDS
    IndexConfig, \* configurations the owner sets
    BucketMax,   \* DEFAULT_BUCKET_MAX_ENTRIES
    ReindexBatch \* MAX_REINDEX_BATCH

IndexedType == {"t1", "t2"}

VARIABLE keywords
(* [config : IndexConfig (None until set), types : IndexTypeEnabled,         *)
(*  buckets : KeywordIndex, words : EventKeywords, fields : the older        *)
(*  buckets, stats : IndexStats, log : the events, type and metadata]        *)

IndexStats == [events : Nat, entries : Nat, unique : Nat, reindexed : Nat]

KeywordInit ==
    keywords = [config |-> None, types |-> EmptyMap, buckets |-> EmptyMap,
                words |-> EmptyMap, fields |-> EmptyMap,
                stats |-> [events |-> 0, entries |-> 0, unique |-> 0, reindexed |-> 0],
                log |-> <<>>]

default_config ==
    [enabled |-> TRUE, min_len |-> MinKeyword, max_len |-> TokenBuffer,
     max_keywords |-> 20, bucket_max |-> BucketMax]

get_index_config == IF keywords.config = None THEN default_config ELSE The(keywords.config)

is_indexing_enabled_for_type(type) ==
    get_index_config.enabled /\ GetOr(keywords.types, type, TRUE)

-----------------------------------------------------------------------------
(* The words of a text that are keywords, without repetition and at most as  *)
(* many as configured. A word longer than the token buffer is cut, not       *)
(* dropped: its length counts as the buffer's size.                          *)
extract_keywords(text, config) ==
    LET cut(w)    == IF LengthOf[w] > TokenBuffer THEN CutOf[w] ELSE w
        length(w) == IF LengthOf[w] > TokenBuffer THEN TokenBuffer ELSE LengthOf[w]
        Kept(w)   == length(w) \in config.min_len..config.max_len /\ cut(w) \notin StopWord
        kept      == SelectSeq(text.words, Kept)
        cuts      == [k \in DOMAIN kept |-> cut(kept[k])]
        first     == {k \in DOMAIN cuts : \A j \in 1..(k - 1) : cuts[j] # cuts[k]}
        at        == SetToSortSeq(first, <)
    IN  [k \in 1..(IF Len(at) < config.max_keywords THEN Len(at) ELSE config.max_keywords) |->
            cuts[at[k]]]

(* The newest entries up to the bound: the oldest are evicted.               *)
Newest(bucket, bound) ==
    IF Len(bucket) <= bound THEN bucket
    ELSE SubSeq(bucket, Len(bucket) - bound + 1, Len(bucket))

bucket_append(buckets, word, i, bound) ==
    Put(buckets, word, Newest(Append(ListUnder(buckets, word), i), bound))

(* bucket_append for each keyword, and the list kept for the event.          *)
WordsEntered(state, i, words, bound) ==
    LET buckets == [w \in DOMAIN state.buckets \cup ToSet(words) |->
                       IF w \in ToSet(words)
                       THEN bucket_append(state.buckets, w, i, bound)[w]
                       ELSE state.buckets[w]]
        new     == Cardinality(ToSet(words) \ DOMAIN state.buckets)
    IN  [state EXCEPT !.buckets = buckets,
                      !.words = IF words = <<>> THEN @ ELSE Put(@, i, words),
                      !.stats.unique = @ + new]

Removed(state, i) ==
    LET listed == ToSet(ListUnder(state.words, i))
        Other(e) == e # i
    IN  [state EXCEPT
            !.buckets = [w \in DOMAIN @ |-> IF w \in listed THEN SelectSeq(@[w], Other) ELSE @[w]],
            !.words = [k \in DOMAIN @ \ {i} |-> @[k]]]

-----------------------------------------------------------------------------
(* Governance. The caller is trusted to be the owner.                        *)

init_index_config(config) == keywords' = [keywords EXCEPT !.config = Some(config)]

set_index_type_enabled(type, enabled) ==
    keywords' = [keywords EXCEPT !.types = Put(@, type, enabled)]

-----------------------------------------------------------------------------
(* The older index: category and type, submitter and type, fields; one       *)
(* category and one submitter stand for all, no event has a sub-type.        *)
FieldKeys(type, text) ==
    {<<"category", type>>, <<"submitter", type>>}
        \cup {<<"field", text.fields[k]>> : k \in DOMAIN text.fields}

Occurrences(key, text) ==
    IF key[1] # "field" THEN 1
    ELSE Cardinality({k \in DOMAIN text.fields : text.fields[k] = key[2]})

index_event_metadata(fields, i, type, text) ==
    LET keys == FieldKeys(type, text)
    IN  [key \in DOMAIN fields \cup keys |->
            IF key \notin keys THEN fields[key]
            ELSE Newest(ListUnder(fields, key)
                          \o [n \in 1..Occurrences(key, text) |-> i], BucketMax)]

(* An event is logged and its text indexed, in both indexes.                 *)
index_event(type, text) ==
    LET i      == Len(keywords.log)
        config == get_index_config
        words  == IF is_indexing_enabled_for_type(type) THEN extract_keywords(text, config)
                  ELSE <<>>
        entered == WordsEntered(keywords, i, words, config.bucket_max)
    IN  /\ i < MaxRecords
        /\ keywords' =
             [entered EXCEPT
                !.stats.events = IF words = <<>> THEN @ ELSE @ + 1,
                !.stats.entries = @ + Len(words),
                !.fields = index_event_metadata(@, i, type, text),
                !.log = Append(@, [type |-> type, text |-> text])]

(* update_event of the ledger, which leaves the index alone.                 *)
event_amended(i, text) ==
    /\ keywords.log[i + 1].text # text
    /\ keywords' = [keywords EXCEPT !.log[i + 1].text = text]

-----------------------------------------------------------------------------
remove_event_from_index(i) ==
    /\ i \in DOMAIN keywords.words
    /\ keywords' = Removed(keywords, i)

(* One event of a re-indexing; entries and events are not counted again.     *)
Reindexed(state, i) ==
    LET event == state.log[i + 1]
        bare  == Removed(state, i)
    IN  IF is_indexing_enabled_for_type(event.type)
        THEN WordsEntered(bare, i, extract_keywords(event.text, get_index_config),
                     get_index_config.bucket_max)
        ELSE bare

reindex_events(start, end) ==
    LET stop  == IF end < start + ReindexBatch THEN end ELSE start + ReindexBatch
        after[i \in start..stop] ==
            IF i = start THEN keywords ELSE Reindexed(after[i - 1], i - 1)
    IN  /\ start < end /\ end <= Len(keywords.log)
        /\ keywords' = [after[stop] EXCEPT !.stats.reindexed = IF stop > @ THEN stop ELSE @]

(* A page of the positions found under a keyword.                            *)
search_events_by_keyword(word, page, size) ==
    LET bucket == ListUnder(keywords.buckets, word)
        from   == page * size
        to     == IF from + size < Len(bucket) THEN from + size ELSE Len(bucket)
    IN  IF size = 0 \/ from >= Len(bucket) THEN <<>> ELSE SubSeq(bucket, from + 1, to)

keyword_entry_count(word) == Len(ListUnder(keywords.buckets, word))

-----------------------------------------------------------------------------
KeywordNext ==
    \/ \E config \in IndexConfig : init_index_config(config)
    \/ \E type \in IndexedType, on \in BOOLEAN : set_index_type_enabled(type, on)
    \/ \E type \in IndexedType, text \in Text : index_event(type, text)
    \/ \E i \in 0..(Len(keywords.log) - 1) :
        \/ \E text \in Text : event_amended(i, text)
        \/ remove_event_from_index(i)
    \/ \E start, end \in 0..Len(keywords.log) : reindex_events(start, end)

KeywordTypeOK ==
    /\ keywords.config \in SUBSET IndexConfig
    /\ keywords.stats \in IndexStats
    /\ \A w \in DOMAIN keywords.buckets : keywords.buckets[w] \in Seq(0..(Len(keywords.log) - 1))

(* The index by keyword can be searched and cleaned up, whatever evictions,  *)
(* reconfigurations, amendments, removals and partial re-indexings went      *)
(* before: a search names an event at most once and only one that lists the  *)
(* keyword, so that removing the event by its list leaves nothing of it; and *)
(* the statistics count each keyword once that ever had a bucket.            *)
KeywordsAccounted ==
    /\ \A w \in DOMAIN keywords.buckets :
        LET found == search_events_by_keyword(w, 0, MaxRecords)
        IN  /\ Len(found) = keyword_entry_count(w)
            /\ Cardinality(ToSet(found)) = Len(found)
            /\ \A i \in ToSet(found) : w \in ToSet(ListUnder(keywords.words, i))
    /\ keywords.stats.unique = Cardinality(DOMAIN keywords.buckets)
=============================================================================
