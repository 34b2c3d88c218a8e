--------------------------- MODULE RegionFailover ---------------------------
(* Regions, their heartbeats, cross-region syncs and failovers               *)
(* (src/src/multi_region.rs).                                                *)
EXTENDS PlatformHost

CONSTANT Region   \* ids of regions

VARIABLE regions
(* [nodes : Region(id), listed : RegisteredRegionsList, syncs : SyncRecord,  *)
(*  failovers : Failover(id), latest : LatestFailover, config :              *)
(*  TopologyConfig]                                                          *)

RegionHealthStatus == {"Healthy", "Degraded", "Unreachable", "Draining", "Offline"}

RegionNode == [is_primary : BOOLEAN, health_status : RegionHealthStatus,
               last_heartbeat : 0..MaxClock, processed_seq : Amount \cup {0}]

FailoverEvent == [id : Label, old_primary : Region, new_primary : Region,
                  fencing_token : Amount, completed_at : 0..MaxClock]

TopologyConfig == [primary_region : Region, current_fencing_token : Amount]

RegionsInit ==
    regions = [nodes |-> EmptyMap, listed |-> <<>>, syncs |-> EmptyMap,
               failovers |-> EmptyMap, latest |-> None, config |-> None]

(* A region may be registered as primary whatever the others are.            *)
register_region(r, is_primary) ==
    /\ r \notin DOMAIN regions.nodes
    /\ regions' = [regions EXCEPT
          !.nodes = Put(@, r, [is_primary |-> is_primary, health_status |-> "Healthy",
                               last_heartbeat |-> clock, processed_seq |-> 0]),
          !.listed = Append(@, r)]

(* The reported sequence may be lower than the one reported before.          *)
heartbeat_region(r, seq, health) ==
    /\ r \in DOMAIN regions.nodes
    /\ regions' = [regions EXCEPT !.nodes[r].last_heartbeat = clock,
                                  !.nodes[r].processed_seq = seq,
                                  !.nodes[r].health_status = health]

record_cross_region_sync(source, target, to_seq) ==
    regions' = [regions EXCEPT !.syncs = Put(@, <<source, target>>, to_seq)]

(* The old primary as it is written, then the new one over it.               *)
Drained(nodes, old) ==
    IF old \notin DOMAIN nodes THEN nodes
    ELSE [nodes EXCEPT ![old].is_primary = FALSE, ![old].health_status = "Draining"]

(* Faulty variant: the old primary is written last.                          *)
PromotedThenDrained(nodes, old, new) ==
    Drained(Put(nodes, new, [nodes[new] EXCEPT !.is_primary = TRUE]), old)

Promoted(nodes, old, new) ==
    Put(Drained(nodes, old), new, [nodes[new] EXCEPT !.is_primary = TRUE])

(* The token is stored as given: StaleFencingToken is never raised.          *)
initiate_failover(id, old, new, token) ==
    LET event == [id |-> id, old_primary |-> old, new_primary |-> new,
                  fencing_token |-> token, completed_at |-> clock]
    IN  /\ new \in DOMAIN regions.nodes
        /\ regions.nodes[new].health_status \in {"Healthy", "Degraded"}
        /\ regions' = [regions EXCEPT
              !.nodes = Promoted(@, old, new),
              !.failovers = Put(@, id, event),
              !.latest = Some(event),
              !.config = Some([primary_region |-> new, current_fencing_token |-> token])]

RegionsNext ==
    \E r \in Region :
        \/ \E primary \in BOOLEAN : register_region(r, primary)
        \/ \E seq \in Amount, health \in RegionHealthStatus : heartbeat_region(r, seq, health)
        \/ \E target \in Region, seq \in Amount : record_cross_region_sync(r, target, seq)
        \/ \E id \in Label, old \in Region, token \in Amount : initiate_failover(id, old, r, token)

RegionsTypeOK ==
    /\ \A r \in DOMAIN regions.nodes : regions.nodes[r] \in RegionNode
    /\ regions.latest \subseteq FailoverEvent
    /\ regions.config \subseteq TopologyConfig
    /\ regions.listed \in Seq(Region)

-----------------------------------------------------------------------------
(* Failover (multi_region.rs initiate_failover): whatever regions fail over  *)
(* to one another, also a region to itself, the configured primary is a      *)
(* registered region marked primary, the configuration is the one of the     *)
(* latest failover, and every region is listed once.                         *)
PrimaryConfirmed ==
    /\ \A c \in regions.config :
        /\ regions.nodes[c.primary_region].is_primary
        /\ \E f \in regions.latest :
              /\ c = [primary_region |-> f.new_primary,
                      current_fencing_token |-> f.fencing_token]
              /\ regions.failovers[f.id] = f
    /\ IsInjective(regions.listed)
    /\ DOMAIN regions.nodes = {regions.listed[k] : k \in DOMAIN regions.listed}
=============================================================================
