-------------------------------- MODULE MCHealth --------------------------------
(***************************************************************************)
(* The two monitors, side by side.  What is asked of a call of getHealth   *)
(* is the same of either, so that one run asks it; which monitor is asked  *)
(* is settled in the initial state, and the other then does nothing.       *)
(***************************************************************************)
EXTENDS KFHealth

CONSTANT Node

ASSUME NodeAssumption == Node # {}

VARIABLES zkConnection, zkNodeStatus, zkClusterStatus, zkNodes,
          monitor   \* "Kafka" or "Zookeeper"

ZK == INSTANCE ZKHealth

kfVars == <<zkClient, status, todo, down, warning>>
zkVars == <<zkConnection, zkNodeStatus, zkClusterStatus, zkNodes>>
healthVars == <<vars, zkVars, monitor>>

HealthInit ==
  /\ monitor \in {"Kafka", "Zookeeper"}
  /\ ZK!Init
  /\ Init
  /\ monitor = "Zookeeper" => status = [b \in Broker |-> "DOWN"]

HealthNext ==
  \/ monitor = "Kafka" /\ Next /\ UNCHANGED <<zkVars, monitor>>
  \/ monitor = "Zookeeper" /\ ZK!Next /\ UNCHANGED <<kfVars, monitor>>

HealthSpec == HealthInit /\ [][HealthNext]_healthVars

=============================================================================
