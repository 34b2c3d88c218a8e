--------------------------- MODULE LeaderElection ---------------------------
(* High availability of the relayers (src/bridge/relayer/ha.ts): each node's *)
(* LeaderElector loop reads a shared lease and takes it when it has expired, *)
(* or renews its own. The lease is kept as the time it has left; terms are   *)
(* only reported, no decision reads them.                                    *)
EXTENDS Integers, FiniteSets

CONSTANTS
    Node,          \* relayer nodes
    LeaseDuration, \* leaseDurationMs, in ticks
    MaxStops       \* nodes stopped, and writes of the lease refused

ASSUME ElectionAssumption ==
    /\ IsFiniteSet(Node)
    /\ LeaseDuration \in Nat \ {0}
    /\ MaxStops \in Nat

Expired == -1

VARIABLES
    lease,   \* what the shared store holds: time left, Expired when over or absent
    running, \* nodes whose loop runs
    role,    \* LEADER or STANDBY
    writing, \* nodes awaiting setLease: the time left of the lease they write,
             \*   and the role in which they began
    stops    \* stops and refused writes so far

electionVars == <<lease, running, role, writing, stops>>

ElectionInit ==
    /\ lease = Expired
    /\ running = Node
    /\ role = [n \in Node |-> "STANDBY"]
    /\ writing = [n \in {} |-> [left |-> LeaseDuration, as |-> "STANDBY"]]
    /\ stops = 0

(* Faulty variant: the lease is compared with the time it was acquired.      *)
NeverOlder(left) == left

Older(left) == IF left = Expired THEN Expired ELSE left - 1

(* Time passes for the lease and for the ones on their way to the store.     *)
Elapse ==
    /\ lease' = Older(lease)
    /\ writing' = [n \in DOMAIN writing |-> [writing[n] EXCEPT !.left = Older(@)]]
    /\ lease' # lease \/ writing' # writing
    /\ UNCHANGED <<running, role, stops>>

Await(n) == writing' = [x \in DOMAIN writing \cup {n} |->
                           IF x = n THEN [left |-> LeaseDuration, as |-> role[n]]
                           ELSE writing[x]]
Returned(n) == writing' = [x \in DOMAIN writing \ {n} |-> writing[x]]

(* tryAcquireLeadership from the answer of getLease up to the await of       *)
(* setLease: the lease has expired. When it has not, nothing happens until   *)
(* the next turn.                                                            *)
tryAcquireLeadership(n) ==
    /\ n \in running /\ role[n] = "STANDBY" /\ n \notin DOMAIN writing
    /\ lease = Expired
    /\ Await(n)
    /\ UNCHANGED <<lease, running, role, stops>>

(* renewLeadership up to the same await; it does not look at the lease.      *)
renewLeadership(n) ==
    /\ n \in running /\ role[n] = "LEADER" /\ n \notin DOMAIN writing
    /\ Await(n)
    /\ UNCHANGED <<lease, running, role, stops>>

(* setLease writes whatever it is given, and reports success. Who acquired   *)
(* the lease leads, even when stop() was called meanwhile; who renewed it    *)
(* stays what it is.                                                         *)
LeaseWritten(n) ==
    /\ n \in DOMAIN writing
    /\ lease' = writing[n].left
    /\ Returned(n)
    /\ role' = IF writing[n].as = "STANDBY" THEN [role EXCEPT ![n] = "LEADER"] ELSE role
    /\ UNCHANGED <<running, stops>>

(* setLease reports failure: a leader steps down, a standby stays one.       *)
LeaseRefused(n) ==
    /\ n \in DOMAIN writing
    /\ stops < MaxStops
    /\ stops' = stops + 1
    /\ Returned(n)
    /\ role' = [role EXCEPT ![n] = "STANDBY"]
    /\ UNCHANGED <<lease, running>>

(* stop(): the loop is not scheduled again and a leader steps down; a call   *)
(* under way still ends. One node is left running.                           *)
stop(n) ==
    /\ n \in running /\ running # {n} /\ stops < MaxStops
    /\ stops' = stops + 1
    /\ running' = running \ {n}
    /\ role' = [role EXCEPT ![n] = "STANDBY"]
    /\ UNCHANGED <<lease, writing>>

(* A new process of a stopped node, once the old one has ended.              *)
start(n) ==
    /\ n \notin running /\ n \notin DOMAIN writing
    /\ running' = running \cup {n}
    /\ role' = [role EXCEPT ![n] = "STANDBY"]
    /\ UNCHANGED <<lease, writing, stops>>

Loop(n) == tryAcquireLeadership(n) \/ renewLeadership(n) \/ LeaseWritten(n)

ElectionNext ==
    \/ Elapse
    \/ \E n \in Node : Loop(n) \/ LeaseRefused(n) \/ stop(n) \/ start(n)

(* Time passes, timers fire and the store answers.                           *)
ElectionFairness ==
    /\ WF_electionVars(Elapse)
    /\ \A n \in Node : WF_electionVars(Loop(n))

ElectionSpec == ElectionInit /\ [][ElectionNext]_electionVars /\ ElectionFairness

-----------------------------------------------------------------------------
(* Whoever stops, whenever: again and again some running node leads, because *)
(* the lease of a leader that is gone runs out and a standby takes it.       *)
LeadershipReturns == []<>(\E n \in running : role[n] = "LEADER")
=============================================================================
