------------------------------- MODULE ZKHealth -------------------------------
(***************************************************************************)
(* getHealth of zookeeper/ZKClusterWatcher.java, and the getCluster it is  *)
(* made of.  Without a lock it reads the status of one node watcher after  *)
(* the other and then the status of the cluster, while the threads of the  *)
(* monitor set these, an expired session is being replaced, or a client    *)
(* stops the monitor.                                                      *)
(***************************************************************************)
EXTENDS HealthCall

CONSTANT Node   \* not empty

VARIABLES zkConnection,    \* the field: "null" or "open"
          phase,           \* "new", "started" by start(), "stopped" by stop()
          shut,            \* node watchers whose executor has been shut down
          zkNodeStatus,    \* of each node watcher
          zkClusterStatus, \* the field
          pc,              \* "idle", or what getHealth reads next
          zkNodes          \* statuses read so far, a function on a set of nodes

monitorVars == <<zkConnection, phase, shut>>
statusVars == <<zkNodeStatus, zkClusterStatus, seen, disturbed>>
callVars == <<pc, zkNodes, answer>>
vars == <<monitorVars, statusVars, callVars>>

NodeStatus == {"UP", "DOWN"}
ClusterStatus == {"QUORUM", "NO_QUORUM"}
Health == {"OK", "WARNING", "NO_QUORUM"}

TypeOK ==
  /\ zkConnection \in {"null", "open"}
  /\ phase \in {"new", "started", "stopped"}
  /\ shut \in SUBSET Node
  /\ zkNodeStatus \in [Node -> NodeStatus]
  /\ zkClusterStatus \in ClusterStatus
  /\ pc \in {"idle", "nodes", "cluster"}
  /\ DOMAIN zkNodes \subseteq Node
  /\ \A n \in DOMAIN zkNodes : zkNodes[n] \in NodeStatus
  /\ answer \in Health \cup {"none", "IllegalState", "ZKMonitor"}
  /\ seen \in SUBSET Health
  /\ disturbed \in BOOLEAN

\* ZKClusterHealthName, of all statuses at one instant.
HealthOf(cluster, nodes) ==
  IF cluster = "NO_QUORUM" THEN "NO_QUORUM"
  ELSE IF \A n \in Node : nodes[n] = "UP" THEN "OK"
  ELSE "WARNING"

\* Mutant of Verdict: nodes come first.
VerdictNodesFirst(cluster, nodes) ==
  IF \A n \in DOMAIN nodes : nodes[n] = "UP" THEN "OK"
  ELSE IF cluster = "QUORUM" THEN "WARNING" ELSE "NO_QUORUM"

\* The last lines of getHealth.
Verdict(cluster, nodes) ==
  IF cluster = "NO_QUORUM" THEN "NO_QUORUM"
  ELSE IF \E n \in DOMAIN nodes : nodes[n] = "DOWN" THEN "WARNING" ELSE "OK"

Init ==
  /\ zkConnection = "null"
  /\ phase = "new"
  /\ shut = {}
  /\ zkNodeStatus = [n \in Node |-> "DOWN"]
  /\ zkClusterStatus = "NO_QUORUM"
  /\ pc = "idle"
  /\ zkNodes = [n \in {} |-> "DOWN"]
  /\ answer = "none"
  /\ seen = {}
  /\ disturbed = FALSE

-----------------------------------------------------------------------------
(* getHealth and getCluster *)

\* The call begins; without a connection it is over.
getHealth ==
  /\ pc = "idle"
  /\ IF zkConnection = "null"
       THEN answer' = "IllegalState" /\ UNCHANGED pc
       ELSE answer' = "none" /\ pc' = "nodes"
  /\ zkNodes' = [n \in {} |-> "DOWN"]
  /\ seen' = {HealthOf(zkClusterStatus, zkNodeStatus)}
  /\ disturbed' = FALSE
  /\ UNCHANGED <<monitorVars, zkNodeStatus, zkClusterStatus>>

\* One node of the list; a watcher that was stopped throws.
getStatus(n) ==
  /\ pc = "nodes"
  /\ n \notin DOMAIN zkNodes
  /\ IF n \in shut
       THEN /\ answer' = "ZKMonitor"
            /\ pc' = "idle"
            /\ UNCHANGED zkNodes
       ELSE /\ zkNodes' = [m \in DOMAIN zkNodes \cup {n} |->
                             IF m = n THEN zkNodeStatus[n] ELSE zkNodes[m]]
            /\ pc' = IF DOMAIN zkNodes' = Node THEN "cluster" ELSE "nodes"
            /\ UNCHANGED answer
  /\ UNCHANGED <<monitorVars, statusVars>>

\* The status of the cluster, and what follows from all that was read.
Return ==
  /\ pc = "cluster"
  /\ pc' = "idle"
  /\ answer' = Verdict(zkClusterStatus, zkNodes)
  /\ UNCHANGED <<monitorVars, statusVars, zkNodes>>

-----------------------------------------------------------------------------
(* Meanwhile, in the other threads *)

\* The statuses become those of nodes and cluster; the threads that set them run
\* since start(), and the last ones outlive stop().  Of a call it is the statuses
\* that improve which disturb it.
StatusesBecome(cluster, nodes) ==
  /\ phase # "new"
  /\ zkClusterStatus' = cluster
  /\ zkNodeStatus' = nodes
  /\ seen' = IF pc = "idle" THEN seen ELSE seen \cup {HealthOf(cluster, nodes)}
  /\ UNCHANGED <<monitorVars, callVars>>

NodeUp(n) ==
  /\ zkNodeStatus[n] = "DOWN"
  /\ StatusesBecome(zkClusterStatus, [zkNodeStatus EXCEPT ![n] = "UP"])
  /\ disturbed' = (disturbed \/ pc # "idle")

NodeDown(n) ==
  /\ zkNodeStatus[n] = "UP"
  /\ StatusesBecome(zkClusterStatus, [zkNodeStatus EXCEPT ![n] = "DOWN"])
  /\ UNCHANGED disturbed

GetQuorum ==
  /\ zkConnection = "open"
  /\ zkClusterStatus = "NO_QUORUM"
  /\ StatusesBecome("QUORUM", zkNodeStatus)
  /\ disturbed' = (disturbed \/ pc # "idle")

LackOfQuorum ==
  /\ zkConnection = "open"
  /\ zkClusterStatus = "QUORUM"
  /\ StatusesBecome("NO_QUORUM", zkNodeStatus)
  /\ UNCHANGED disturbed

\* start() that goes through.
Start ==
  /\ phase = "new"
  /\ phase' = "started"
  /\ zkConnection' = "open"
  /\ UNCHANGED <<shut, statusVars, callVars>>

\* The two halves of restartZKConnection, on the event thread, which has set
\* NO_QUORUM for the Expired event.
RestartCloses ==
  /\ phase = "started"
  /\ zkConnection = "open"
  /\ zkClusterStatus = "NO_QUORUM"
  /\ zkConnection' = "null"
  /\ UNCHANGED <<phase, shut, statusVars, callVars>>

RestartOpens ==
  /\ phase = "started"
  /\ zkConnection = "null"
  /\ zkConnection' = "open"
  /\ UNCHANGED <<phase, shut, statusVars, callVars>>

\* stop() closes the connection, then shuts the watchers down one by one.
Stop ==
  /\ phase = "started"
  /\ phase' = "stopped"
  /\ zkConnection' = "null"
  /\ UNCHANGED <<shut, statusVars, callVars>>

stopMonitoring(n) ==
  /\ phase = "stopped"
  /\ n \notin shut
  /\ shut' = shut \cup {n}
  /\ UNCHANGED <<zkConnection, phase, statusVars, callVars>>

-----------------------------------------------------------------------------

Next ==
  \/ getHealth
  \/ Return
  \/ GetQuorum
  \/ LackOfQuorum
  \/ Start
  \/ RestartCloses
  \/ RestartOpens
  \/ Stop
  \/ \E n \in Node : getStatus(n) \/ NodeUp(n) \/ NodeDown(n) \/ stopMonitoring(n)

Spec == Init /\ [][Next]_vars

=============================================================================
