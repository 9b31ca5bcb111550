------------------------------- MODULE KFHealth -------------------------------
(***************************************************************************)
(* getHealth of kafka/KFClusterWatcher.java.  The broker watchers change   *)
(* their statuses, and a client stops them, while a thread that wants to   *)
(* know the health of the cluster goes through them twice: once to count   *)
(* the brokers that are DOWN, once to count those that are WARNING.  The   *)
(* counts are kept as the sets of the brokers counted.                     *)
(***************************************************************************)
EXTENDS HealthCall

CONSTANTS Broker,
          Attainable    \* the statuses a broker watcher may come to have

ASSUME BrokerAssumption == Broker # {}
ASSUME AttainableAssumption == "DOWN" \in Attainable /\ Attainable \subseteq {"UP", "WARNING", "DOWN"}

VARIABLES zkClient, \* the field: "null" or "open"
          phase,    \* "new", "started" by start(), "stopping" in stop()
          status,   \* kfBrokerStatus of each broker watcher
          shut,     \* broker watchers whose executor has been shut down
          pc,       \* "idle", or the stream getHealth is going through
          todo,     \* brokers that stream has still to look at
          down,     \* brokers counted by getNumberOfKafkaBrokersDown
          warning   \* brokers counted by getNumberOfKafkaBrokersWarning

monitorVars == <<zkClient, phase, shut>>
callVars == <<pc, todo, down, warning, answer>>
vars == <<monitorVars, status, callVars, seen, disturbed>>

BrokerStatus == {"UP", "WARNING", "DOWN"}
ClusterStatus == {"OK", "WARNING", "DOWN"}

TypeOK ==
  /\ zkClient \in {"null", "open"}
  /\ phase \in {"new", "started", "stopping"}
  /\ status \in [Broker -> BrokerStatus]
  /\ shut \in SUBSET Broker
  /\ pc \in {"idle", "counting down", "counting warning"}
  /\ todo \in SUBSET Broker
  /\ down \in SUBSET Broker
  /\ warning \in SUBSET Broker
  /\ answer \in ClusterStatus \cup {"none", "IllegalState", "KFMonitor"}
  /\ seen \in SUBSET ClusterStatus
  /\ disturbed \in BOOLEAN

\* Mutant: a cluster without an UP broker is DOWN.
VerdictWithoutUp(d, w) ==
  CASE d \cup w = Broker -> "DOWN"
    [] d \cup w # Broker /\ d \cup w # {} -> "WARNING"
    [] OTHER -> "OK"

\* The last lines of getHealth, from the two counts.
Verdict(d, w) ==
  CASE d = Broker -> "DOWN"
    [] d # Broker /\ d = {} /\ w = {} -> "OK"
    [] OTHER -> "WARNING"

\* KFClusterStatusName, of all brokers at one instant: what a getHealth that
\* looked at them all at once would return.
HealthOf(st) ==
  IF \A b \in Broker : st[b] = "DOWN" THEN "DOWN"
  ELSE IF \A b \in Broker : st[b] = "UP" THEN "OK"
  ELSE "WARNING"

Init ==
  /\ zkClient = "null"
  /\ phase = "new"
  /\ status \in [Broker -> Attainable]
  /\ shut = {}
  /\ pc = "idle"
  /\ todo = {}
  /\ down = {}
  /\ warning = {}
  /\ answer = "none"
  /\ seen = {}
  /\ disturbed = FALSE

-----------------------------------------------------------------------------

\* The call begins; without a session it is over.
getHealth ==
  /\ pc = "idle"
  /\ IF zkClient = "null"
       THEN answer' = "IllegalState" /\ UNCHANGED <<pc, todo>>
       ELSE answer' = "none" /\ pc' = "counting down" /\ todo' = Broker
  /\ down' = {}
  /\ warning' = {}
  /\ seen' = {HealthOf(status)}
  /\ disturbed' = FALSE
  /\ UNCHANGED <<monitorVars, status>>

\* One element of a stream: getStatus throws for a watcher that was stopped.
Count(b, x, counted) == IF status[b] = x THEN counted \cup {b} ELSE counted

getStatus(b) ==
  /\ b \in todo
  /\ IF b \in shut
       THEN /\ answer' = "KFMonitor"
            /\ pc' = "idle"
            /\ todo' = {}
            /\ UNCHANGED <<down, warning>>
       ELSE /\ todo' = todo \ {b}
            /\ \/ /\ pc = "counting down"
                  /\ down' = Count(b, "DOWN", down)
                  /\ UNCHANGED warning
               \/ /\ pc = "counting warning"
                  /\ warning' = Count(b, "WARNING", warning)
                  /\ UNCHANGED down
            /\ UNCHANGED <<pc, answer>>
  /\ UNCHANGED <<monitorVars, status, seen, disturbed>>

\* Between the two streams.
getNumberOfKafkaBrokersWarning ==
  /\ pc = "counting down"
  /\ todo = {}
  /\ pc' = "counting warning"
  /\ todo' = Broker
  /\ UNCHANGED <<monitorVars, status, down, warning, answer, seen, disturbed>>

Return ==
  /\ pc = "counting warning"
  /\ todo = {}
  /\ pc' = "idle"
  /\ answer' = Verdict(down, warning)
  /\ UNCHANGED <<monitorVars, status, todo, down, warning, seen, disturbed>>

-----------------------------------------------------------------------------
(* Meanwhile, in the other threads of the monitor *)

\* Which statuses are worse than s.
Worse(s) == CASE s = "UP" -> {"WARNING", "DOWN"}
              [] s = "WARNING" -> {"DOWN"}
              [] OTHER -> {}

\* A broker watcher sets another status, in a thread that runs since start() and
\* may outlive stop(); one that is worse disturbs a call.
StatusChanges(b) ==
  /\ phase # "new"
  /\ \E s \in Attainable \ {status[b]} :
       /\ status' = [status EXCEPT ![b] = s]
       /\ disturbed' = (disturbed \/ (pc # "idle" /\ s \in Worse(status[b])))
  /\ seen' = IF pc = "idle" THEN seen ELSE seen \cup {HealthOf(status')}
  /\ UNCHANGED <<monitorVars, callVars>>

\* start() that goes through.
Start ==
  /\ phase = "new"
  /\ phase' = "started"
  /\ zkClient' = "open"
  /\ UNCHANGED <<shut, status, callVars, seen, disturbed>>

\* The two halves of a restart, on the event thread of an expired session.
RestartCloses ==
  /\ phase = "started"
  /\ zkClient = "open"
  /\ zkClient' = "null"
  /\ UNCHANGED <<phase, shut, status, callVars, seen, disturbed>>

RestartOpens ==
  /\ phase = "started"
  /\ zkClient = "null"
  /\ zkClient' = "open"
  /\ UNCHANGED <<phase, shut, status, callVars, seen, disturbed>>

\* stop() shuts the watchers down one by one, and then closes the session.
stopMonitoring(b) ==
  /\ phase \in {"started", "stopping"}
  /\ b \notin shut
  /\ phase' = "stopping"
  /\ shut' = shut \cup {b}
  /\ UNCHANGED <<zkClient, status, callVars, seen, disturbed>>

closeConnection ==
  /\ shut = Broker
  /\ zkClient = "open"
  /\ zkClient' = "null"
  /\ UNCHANGED <<phase, shut, status, callVars, seen, disturbed>>

Next ==
  \/ getHealth
  \/ getNumberOfKafkaBrokersWarning
  \/ Return
  \/ Start
  \/ RestartCloses
  \/ RestartOpens
  \/ closeConnection
  \/ \E b \in Broker : getStatus(b) \/ StatusChanges(b) \/ stopMonitoring(b)

Spec == Init /\ [][Next]_vars

=============================================================================
