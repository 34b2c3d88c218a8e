--------------------------- MODULE LedgerArchive ---------------------------
(* Cold storage of events (src/src/lib.rs): archive_events with its cursor   *)
(* and flags, the copies and references it writes, purging, and what reading *)
(* an archived event gives back.                                             *)
EXTENDS AuditLedger

-----------------------------------------------------------------------------
(* The run-length encoding of archived metadata: compress, tag and expand,   *)
(* on sequences of bytes. A byte is a digit of base ByteBase (256 in the     *)
(* contract); a run length takes two digits, low one first.                  *)

CONSTANT ByteBase

ASSUME ByteBaseAssumption == ByteBase \in Nat /\ ByteBase > 2

Byte == 0..(ByteBase - 1)

(* Leading byte of a stored payload; inside a compressed one, RunMark opens  *)
(* a run and RawMark escapes a literal.                                      *)
RawMark == 0
RunMark == 1

-----------------------------------------------------------------------------
(* Last position of the run of equal bytes that starts at i.                 *)
RunEnd(p, i) ==
    CHOOSE j \in i..Len(p) :
        /\ \A k \in i..j : p[k] = p[i]
        /\ j = Len(p) \/ p[j + 1] # p[i]

Literal(b) == IF b \in {RawMark, RunMark} THEN <<RawMark, b>> ELSE <<b>>

(* What a run of n bytes b becomes: from three bytes on, mark, byte and the  *)
(* low and high digit of its length.                                         *)
EncodeRun(b, n) ==
    IF n >= 3 THEN <<RunMark, b, n % ByteBase, (n \div ByteBase) % ByteBase>>
    ELSE IF n = 2 THEN Literal(b) \o Literal(b)
    ELSE Literal(b)

compress_bytes(p) ==
    LET enc[i \in 1..(Len(p) + 1)] ==
            IF i > Len(p) THEN <<>>
            ELSE EncodeRun(p[i], RunEnd(p, i) - i + 1) \o enc[RunEnd(p, i) + 1]
    IN  <<RunMark>> \o enc[1]

tag_raw_bytes(p) == <<RawMark>> \o p

is_compressed_tag(p) == Len(p) >= 1 /\ p[1] = RunMark

-----------------------------------------------------------------------------
(* Faulty variant: an escaped literal is taken for its own mark.             *)
ExpandWithoutEscapes(p) ==
    LET n == Len(p)
        dec[i \in 1..(n + 1)] ==
            IF i > n THEN <<>>
            ELSE IF p[i] = RunMark /\ i + 4 <= n
                 THEN [k \in 1..(p[i + 2] + ByteBase * p[i + 3]) |-> p[i + 1]] \o dec[i + 4]
            ELSE <<p[i]>> \o dec[i + 1]
    IN  dec[2]

(* The decoder after the tag. A run is read only when a further byte follows *)
(* its length; otherwise its bytes are read as items of their own.           *)
ExpandItems(p) ==
    LET n == Len(p)
        dec[i \in 1..(n + 1)] ==
            IF i > n THEN <<>>
            ELSE IF p[i] = RawMark
                 THEN IF i + 1 <= n THEN <<p[i + 1]>> \o dec[i + 2] ELSE <<>>
            ELSE IF p[i] = RunMark
                 THEN IF i + 4 <= n
                      THEN [k \in 1..(p[i + 2] + ByteBase * p[i + 3]) |-> p[i + 1]]
                           \o dec[i + 4]
                      ELSE dec[i + 1]
            ELSE <<p[i]>> \o dec[i + 1]
    IN  dec[2]

expand_archived_metadata(p) ==
    IF p = <<>> THEN <<>>
    ELSE IF p[1] = RawMark THEN Tail(p)
    ELSE IF p[1] # RunMark THEN p
    ELSE ExpandItems(p)

-----------------------------------------------------------------------------
(* The payload ends in three or more equal bytes.                            *)
EndsInRun(p) ==
    /\ Len(p) >= 3
    /\ p[Len(p)] = p[Len(p) - 1]
    /\ p[Len(p)] = p[Len(p) - 2]

(* Two digits hold the length of every run.                                  *)
RunsFit(p) == \A i \in DOMAIN p : RunEnd(p, i) - i + 1 < ByteBase * ByteBase

(* What expand_archived_metadata gives back is the compressed payload unless *)
(* that payload ends in a run, whatever marks, escapes and runs it contains; *)
(* a final run is always lost. A tagged raw payload always comes back.       *)
RoundTrips(p) ==
    /\ expand_archived_metadata(tag_raw_bytes(p)) = p
    /\ RunsFit(p) =>
        ((expand_archived_metadata(compress_bytes(p)) = p) <=> ~EndsInRun(p))

-----------------------------------------------------------------------------
(* The archive.                                                              *)

CONSTANT BytesOf        \* the bytes of each metadata payload

ASSUME BytesAssumption ==
    /\ BytesOf \in [Metadata -> Seq(Byte)]
    /\ \A m \in Metadata : Len(BytesOf[m]) = SizeOf[m]

VARIABLE archive
(* [config  : ArchiveConfig (offchain_storage, compression)                  *)
(*  cursor  : ArchiveScanCursor          total : ArchivedTotalEvents         *)
(*  order   : ArchivedEventOrder(k)      flags : EventArchivedFlag(id)       *)
(*  copies  : ArchivedEventData(id)      heads : ArchivedEventHeaderKey(id)  *)
(*  metas   : ArchivedEventMetadata(id)  refs  : ArchivedEventRefKey(id)     *)
(*  compressed, offchain : the two counters]                                 *)

ArchiveConfig == [offchain : BOOLEAN, compression : {0, 1}]

ArchiveInit ==
    archive = [config |-> [offchain |-> FALSE, compression |-> 0],
               cursor |-> 0, total |-> 0, order |-> EmptyMap, flags |-> {},
               copies |-> EmptyMap, heads |-> EmptyMap, metas |-> EmptyMap,
               refs |-> EmptyMap, compressed |-> 0, offchain |-> 0]

-----------------------------------------------------------------------------
set_archive_config(c, config) ==
    /\ require_owner_or_multisig(c)
    /\ archive' = [archive EXCEPT !.config = config]
    /\ UNCHANGED vars

(* Where the scan stops: at the first unflagged event that is not older than *)
(* the cutoff, or at the end of the log.                                     *)
ScanEnd(cutoff) ==
    CHOOSE i \in archive.cursor..rs.total :
        /\ i = rs.total \/ (order[i] \notin archive.flags
                            /\ EventAt(i).timestamp >= cutoff)
        /\ \A k \in archive.cursor..(i - 1) :
              order[k] \in archive.flags \/ EventAt(k).timestamp < cutoff

(* Header and stored metadata of the event at position i. On chain an        *)
(* uncompressed payload carries no tag.                                      *)
HeaderOf(e) == <<e.index, e.timestamp, e.event_type, e.submitter>>

StoredMetadata(m) ==
    IF archive.config.compression = 1 THEN compress_bytes(BytesOf[m])
    ELSE IF archive.config.offchain THEN tag_raw_bytes(BytesOf[m])
    ELSE BytesOf[m]

(* One storage.set for each key of g.                                        *)
PutAll(f, g) == [x \in DOMAIN f \cup DOMAIN g |-> IF x \in DOMAIN g THEN g[x] ELSE f[x]]

(* What archive_events writes for the positions in moved.                    *)
Move(moved) ==
    LET ids     == {order[i] : i \in moved}
        place(i) == archive.total + Cardinality({k \in moved : k < i})
        meta    == [id \in ids |-> StoredMetadata(data[id].metadata)]
        added   == [k \in {place(i) : i \in moved} |->
                        order[CHOOSE i \in moved : place(i) = k]]
        copies  == [id \in ids |-> [data[id] EXCEPT !.metadata = meta[id]]]
        refs    == [id \in ids |-> [index |-> id.index, checksum |-> data[id].event_hash,
                                    archived_at |-> now]]
        n       == Cardinality(moved)
    IN  [archive EXCEPT
            !.flags = @ \cup ids,
            !.order = PutAll(@, added),
            !.total = @ + n,
            !.heads = PutAll(@, [id \in ids |-> HeaderOf(data[id])]),
            !.metas = PutAll(@, meta),
            !.copies = IF archive.config.offchain THEN @ ELSE PutAll(@, copies),
            !.refs = IF archive.config.offchain THEN PutAll(@, refs) ELSE @,
            !.compressed = IF archive.config.compression = 1 THEN @ + n ELSE @,
            !.offchain = IF archive.config.offchain THEN @ + n ELSE @]

(* Faulty variant: the scan goes on after an event it does not archive.      *)
ArchiveScanningOn(c, cutoff) ==
    LET moved == {i \in archive.cursor..(rs.total - 1) :
                    order[i] \notin archive.flags /\ EventAt(i).timestamp < cutoff}
    IN  /\ require_owner_or_multisig(c)
        /\ archive' = [Move(moved) EXCEPT !.cursor = rs.total]
        /\ UNCHANGED vars

archive_events(c, cutoff) ==
    LET stop  == ScanEnd(cutoff)
        moved == {i \in archive.cursor..(stop - 1) : order[i] \notin archive.flags}
    IN  /\ require_owner_or_multisig(c)
        /\ archive' = [Move(moved) EXCEPT !.cursor = stop]
        /\ UNCHANGED vars

(* Faulty variant: slots of old references are purged, too.                  *)
PurgedAny(cutoff) ==
    {k \in DOMAIN archive.order : archive.heads[archive.order[k]][2] < cutoff}

(* Slots whose on-chain copy is older than the cutoff. References have no    *)
(* copy and are never purged; flags stay.                                    *)
Purged(cutoff) ==
    {k \in DOMAIN archive.order :
        /\ archive.order[k] \in DOMAIN archive.copies
        /\ archive.copies[archive.order[k]].timestamp < cutoff}

purge_archived_events(c, cutoff, confirm) ==
    LET slots == Purged(cutoff)
        ids   == {archive.order[k] : k \in slots}
    IN  /\ require_owner_or_multisig(c)
        /\ archive' = IF confirm
                      THEN [archive EXCEPT !.order = Without(@, slots),
                                           !.copies = Without(@, ids),
                                           !.heads = Without(@, ids),
                                           !.metas = Without(@, ids)]
                      ELSE archive
        /\ UNCHANGED vars

-----------------------------------------------------------------------------
(* Reading. An id can be read when it has a copy, or a reference and header. *)

Readable(id) ==
    \/ id \in DOMAIN archive.copies
    \/ id \in DOMAIN archive.refs /\ id \in DOMAIN archive.heads

(* Faulty variant: the log's current event at its position is read instead.  *)
ReadCurrent(id) == [EventAt(id.index) EXCEPT !.metadata = BytesOf[@]]

(* The category of an event rebuilt from its reference is always "general".  *)
get_archived_event(id) ==
    IF id \in DOMAIN archive.copies
    THEN LET e == archive.copies[id]
         IN  IF is_compressed_tag(e.metadata)
             THEN [e EXCEPT !.metadata = expand_archived_metadata(@)] ELSE e
    ELSE LET h == archive.heads[id]
         IN  [index |-> h[1], timestamp |-> h[2], event_type |-> h[3],
              submitter |-> h[4], category |-> "general",
              metadata |-> expand_archived_metadata(GetOr(archive.metas, id, <<>>)),
              event_hash |-> archive.refs[id].checksum, prev_hash |-> Genesis]

(* Archived events that can still be found through ArchivedEventOrder.       *)
get_archived_event_count ==
    Cardinality({k \in DOMAIN archive.order :
        archive.order[k] \in DOMAIN archive.copies \cup DOMAIN archive.refs})

(* The slots whose headers a page lists, from start on and at most limit.    *)
list_archived_events(start, limit) ==
    LET with == {k \in DOMAIN archive.order :
                    k >= start /\ archive.order[k] \in DOMAIN archive.heads}
    IN  {k \in with : Cardinality({j \in with : j < k}) < limit}

-----------------------------------------------------------------------------
(* Cutoffs an instance uses.                                                 *)
Cutoff == 0..(MaxTime + 1)

ArchiveCalls ==
    \E c \in Address :
        \/ /\ Called("set_archive_config")
           /\ \E config \in ArchiveConfig : set_archive_config(c, config)
        \/ /\ Called("archive_events")
           /\ \E cutoff \in Cutoff : archive_events(c, cutoff)
        \/ /\ Called("purge_archived_events")
           /\ \E cutoff \in Cutoff, confirm \in BOOLEAN :
                 purge_archived_events(c, cutoff, confirm)

-----------------------------------------------------------------------------
(* The stored payload is misread: the decoder loses a final run, and takes   *)
(* an untagged payload that starts with the run mark for a compressed one.   *)
Misread(id) ==
    LET stored == IF id \in DOMAIN archive.copies THEN archive.copies[id].metadata
                  ELSE archive.metas[id]
        plain  == BytesOf[id.metadata]
    IN  \/ EndsInRun(plain) /\ stored = compress_bytes(plain)
        \/ id \in DOMAIN archive.copies /\ stored = plain /\ is_compressed_tag(plain)

(* Reading an archived event gives back the content its id was computed      *)
(* from, however the event, its predecessors and the archive configuration   *)
(* changed since it was archived.                                            *)
ArchiveFaithful ==
    \A id \in archive.flags : Readable(id) =>
        LET e == get_archived_event(id)
        IN  /\ Addresses([id EXCEPT !.metadata = e.metadata], e)
            /\ e.metadata = BytesOf[id.metadata] \/ Misread(id)

(* No event is archived twice and no slot is lost: each flagged id has one   *)
(* slot until it is purged, the totals count what was written, and the count *)
(* offered to callers is the number of slots left, which paging lists all.   *)
ArchiveBooksBalance ==
    /\ archive.total = Cardinality(archive.flags)
    /\ DOMAIN archive.order \subseteq 0..(archive.total - 1)
    /\ \A j, k \in DOMAIN archive.order :
          archive.order[j] = archive.order[k] => j = k
    /\ {archive.order[k] : k \in DOMAIN archive.order}
          = DOMAIN archive.copies \cup DOMAIN archive.refs
    /\ DOMAIN archive.copies \cap DOMAIN archive.refs = {}
    /\ archive.offchain = Cardinality(DOMAIN archive.refs)
    /\ get_archived_event_count = Cardinality(DOMAIN archive.order)
    /\ list_archived_events(0, archive.total) = DOMAIN archive.order

(* The cursor skips nothing: every position before it was archived in some   *)
(* version, and in its current one unless it was amended.                    *)
CursorSkipsNothing ==
    \A i \in 0..(archive.cursor - 1) :
        /\ \E id \in archive.flags : id.index = i
        /\ i \notin DOMAIN versions => order[i] \in archive.flags
=============================================================================
