------------------------------ MODULE MCBridge ------------------------------
(* Small instances of the bridge's two state machines for TLC. Nothing ties  *)
(* them together in the code, so a behaviour is of the one or of the other.  *)
EXTENDS BridgeRelayer, LeaderElection

CONSTANT Machines

VARIABLE machine

bridgeVars == <<relayerVars, electionVars, machine>>

Relaying(step) == machine = "relayer" /\ step /\ UNCHANGED <<electionVars, machine>>
Electing(step) == machine = "election" /\ step /\ UNCHANGED <<relayerVars, machine>>

BridgeInit == RelayerInit /\ ElectionInit /\ machine \in Machines
BridgeNext == Relaying(RelayerNext) \/ Electing(ElectionNext)

(* RelayerFairness of the one and ElectionFairness of the other.             *)
BridgeFairness ==
    /\ WF_bridgeVars(Relaying(Process))
    /\ WF_bridgeVars(Relaying(WindowElapses))
    /\ WF_bridgeVars(Relaying(ApiAnswers))
    /\ WF_bridgeVars(Electing(Elapse))
    /\ \A n \in Node : WF_bridgeVars(Electing(Loop(n)))

BridgeSpec == BridgeInit /\ [][BridgeNext]_bridgeVars /\ BridgeFairness

(* Once the electors run: whoever stops, whenever, again and again some      *)
(* running node leads (LeadershipReturns of LeaderElection).                 *)
ElectionLive == machine = "election" => LeadershipReturns
=============================================================================
