--------------------------- MODULE KFBrokerWatcher ---------------------------
(***************************************************************************)
(* kafka/KFBrokerWatcher.java: the object that polls one Kafka broker by   *)
(* opening a socket to it, looks its registration up in Zookeeper, and     *)
(* tells a listener when its status changes.  One watcher per broker.      *)
(*                                                                         *)
(* As in ZKNodeWatcher the worker of the watcher's executor (Poller) and   *)
(* the threads started by updateStatusAsync (Updater) meet in the          *)
(* synchronized method emitEventIfBrokerStatusHasChanged.  The metadata is *)
(* a second atomic, written inside that method and by stopMonitoring       *)
(* outside of it.                                                          *)
(***************************************************************************)
EXTENDS Naturals

CONSTANTS Broker,         \* Kafka brokers, one watcher each
          Updater,        \* threads started by updateStatusAsync, per broker
          Poller,         \* the worker thread of the watcher's executor
          ListenerThrows, \* may the client's callback throw?
          ZookeeperFails  \* may a lookup find Zookeeper out of reach?

ASSUME PollerAssumption == Poller \notin Updater
ASSUME ListenerAssumption == ListenerThrows \in BOOLEAN
ASSUME ZookeeperAssumption == ZookeeperFails \in BOOLEAN

VARIABLES reachable,        \* does the broker accept a socket? (environment)
          registered,       \* brokers listed in Zookeeper (environment)
          kfBrokerStatus,   \* AtomicReference
          kfBrokerMetadata, \* AtomicReference, by its connectionString
          notified,         \* what the listener was last told
          beat,             \* callbacks made, modulo 2 (see EndpointStatus)
          executor,         \* "open" or "shutdown"
          controller,       \* executorController and the task it stands for
          pc,               \* where each thread of each watcher is
          local             \* kfBrokerPreviousStatus of each thread

vars == <<reachable, registered, kfBrokerStatus, kfBrokerMetadata, notified,
          beat, executor, controller, pc, local>>

Status == {"UP", "WARNING", "DOWN"}
Thread == Updater \cup {Poller}

\* A KFBrokerMetadata is told apart by its connection string: empty in a new
\* one, that of an endpoint of the broker when one was found.
NoEndpoint == ""
Metadata == {NoEndpoint, "endpoint"}

\* executorController is null; its task is scheduled; its task was ended by a
\* callback that threw, which leaves the field as it is.
Controller == {"null", "scheduled", "ended"}

\* "connected", "refused": inside the monitor, the socket has answered;
\* "looked up": the metadata has been replaced; "down": the status has been
\* set, the metadata has not; "compare": the status is set, the old is in local.
InMonitor == {"connected", "refused", "looked up", "down", "compare"}
PC == {"idle", "entering"} \cup InMonitor

\* No thread is inside the synchronized method of watcher b.
MonitorFree(b) == \A t \in Thread : pc[b][t] \notin InMonitor

TypeOK ==
  /\ reachable \in [Broker -> BOOLEAN]
  /\ registered \in SUBSET Broker
  /\ kfBrokerStatus \in [Broker -> Status]
  /\ kfBrokerMetadata \in [Broker -> Metadata]
  /\ notified \in [Broker -> Status]
  /\ beat \in [Broker -> 0..1]
  /\ executor \in [Broker -> {"open", "shutdown"}]
  /\ controller \in [Broker -> Controller]
  /\ pc \in [Broker -> [Thread -> PC]]
  /\ local \in [Broker -> [Thread -> Status]]

\* The endpoints of the registered brokers are not looked at: the loop that
\* did so is commented out, and every broker gets fresh, empty metadata.
getBrokerMetadataByAddress(kafkaBrokers, b) == NoEndpoint

\* A reachable broker is UP when its metadata has a connection string.
StatusOf(metadata) == IF metadata = NoEndpoint THEN "WARNING" ELSE "UP"

\* The constructor polls once and tells nobody: the status it finds is the one
\* the listener's later callbacks are changes from.
Init ==
  /\ reachable \in [Broker -> BOOLEAN]
  /\ registered \in SUBSET Broker
  /\ kfBrokerMetadata =
       [b \in Broker |-> IF reachable[b]
                           THEN getBrokerMetadataByAddress(registered, b)
                           ELSE NoEndpoint]
  /\ kfBrokerStatus =
       [b \in Broker |-> IF reachable[b]
                           THEN StatusOf(kfBrokerMetadata[b]) ELSE "DOWN"]
  /\ notified = kfBrokerStatus
  /\ beat = [b \in Broker |-> 0]
  /\ executor = [b \in Broker |-> "open"]
  /\ controller = [b \in Broker |-> "null"]
  /\ pc = [b \in Broker |-> [t \in Thread |-> "idle"]]
  /\ local = [b \in Broker |-> [t \in Thread |-> "DOWN"]]

-----------------------------------------------------------------------------
(* The owner's calls *)

\* Does nothing once there is a controller, even if its task has ended; throws
\* RejectedExecutionException, changing nothing, once the executor is shut down.
startMonitoring(b) ==
  /\ controller[b] = "null"
  /\ executor[b] = "open"
  /\ controller' = [controller EXCEPT ![b] = "scheduled"]
  /\ UNCHANGED <<reachable, registered, kfBrokerStatus, kfBrokerMetadata,
                 notified, beat, executor, pc, local>>

\* No poll starts from here on; the one that is running may outlast the 200 ms
\* the method waits for it.  The metadata is emptied outside the monitor.
stopMonitoring(b) ==
  /\ controller' = [controller EXCEPT ![b] = "null"]
  /\ executor' = [executor EXCEPT ![b] = "shutdown"]
  /\ kfBrokerMetadata' = [kfBrokerMetadata EXCEPT ![b] = NoEndpoint]
  /\ UNCHANGED <<reachable, registered, kfBrokerStatus, notified, beat, pc, local>>

\* A new thread on its way to the synchronized method, whatever the state of
\* the executor.
updateStatusAsync(b, t) ==
  /\ t \in Updater
  /\ pc[b][t] = "idle"
  /\ pc' = [pc EXCEPT ![b][t] = "entering"]
  /\ UNCHANGED <<reachable, registered, kfBrokerStatus, kfBrokerMetadata,
                 notified, beat, executor, controller, local>>

-----------------------------------------------------------------------------
(* The threads *)

\* The delay of the periodic task elapses.
pollingCommand(b) ==
  /\ controller[b] = "scheduled"
  /\ pc[b][Poller] = "idle"
  /\ pc' = [pc EXCEPT ![b][Poller] = "entering"]
  /\ UNCHANGED <<reachable, registered, kfBrokerStatus, kfBrokerMetadata,
                 notified, beat, executor, controller, local>>

\* Mutant: the method is not synchronized.
MayEnterUnsynchronized(b) == TRUE

\* The method is synchronized.
MayEnter(b) == MonitorFree(b)

\* The thread takes the watcher's monitor and connects a socket.
connect(b, t) ==
  /\ pc[b][t] = "entering"
  /\ MayEnter(b)
  /\ pc' = [pc EXCEPT ![b][t] = IF reachable[b] THEN "connected" ELSE "refused"]
  /\ UNCHANGED <<reachable, registered, kfBrokerStatus, kfBrokerMetadata,
                 notified, beat, executor, controller, local>>

\* getRegisteredKafkaBrokers answers with the registered brokers, or with none
\* when Zookeeper cannot be reached.
updateMetadataSync(b, t) ==
  /\ pc[b][t] = "connected"
  /\ \E kafkaBrokers \in {registered} \cup (IF ZookeeperFails THEN {{}} ELSE {}) :
       kfBrokerMetadata' = [kfBrokerMetadata EXCEPT
                              ![b] = getBrokerMetadataByAddress(kafkaBrokers, b)]
  /\ pc' = [pc EXCEPT ![b][t] = "looked up"]
  /\ UNCHANGED <<reachable, registered, kfBrokerStatus, notified, beat,
                 executor, controller, local>>

\* kfBrokerStatus.getAndSet(s) by thread t.
GetAndSet(b, t, s) ==
  /\ kfBrokerStatus' = [kfBrokerStatus EXCEPT ![b] = s]
  /\ local' = [local EXCEPT ![b][t] = kfBrokerStatus[b]]
  /\ UNCHANGED <<reachable, registered, notified, beat, executor, controller>>

\* getAndSetStatus: WARNING or UP, by the metadata as it is now.
SetReachable(b, t) ==
  /\ pc[b][t] = "looked up"
  /\ GetAndSet(b, t, StatusOf(kfBrokerMetadata[b]))
  /\ pc' = [pc EXCEPT ![b][t] = "compare"]
  /\ UNCHANGED kfBrokerMetadata

\* Mutant: a refused connection empties the metadata and leaves the status.
SetDownForgotten(b, t) ==
  /\ pc[b][t] = "refused"
  /\ GetAndSet(b, t, kfBrokerStatus[b])
  /\ pc' = [pc EXCEPT ![b][t] = "down"]
  /\ UNCHANGED kfBrokerMetadata

\* getAndSetStatus: the socket failed.  First the status, then the metadata.
SetDown(b, t) ==
  /\ pc[b][t] = "refused"
  /\ GetAndSet(b, t, "DOWN")
  /\ pc' = [pc EXCEPT ![b][t] = "down"]
  /\ UNCHANGED kfBrokerMetadata

initializeBrokerMetadata(b, t) ==
  /\ pc[b][t] = "down"
  /\ kfBrokerMetadata' = [kfBrokerMetadata EXCEPT ![b] = NoEndpoint]
  /\ pc' = [pc EXCEPT ![b][t] = "compare"]
  /\ UNCHANGED <<reachable, registered, kfBrokerStatus, notified, beat,
                 executor, controller, local>>

\* Mutant: only a failure counts as a change, a recovery does not.
HasChangedIfDown(b, t) ==
  local[b][t] # kfBrokerStatus[b] /\ kfBrokerStatus[b] = "DOWN"

HasChanged(b, t) == local[b][t] # kfBrokerStatus[b]

Callback(b) ==
  /\ notified' = [notified EXCEPT ![b] = kfBrokerStatus[b]]
  /\ beat' = [beat EXCEPT ![b] = 1 - @]

\* A periodic task whose callback throws is never run again.
ControllerAfterThrow(b, t) ==
  IF t = Poller /\ controller[b] = "scheduled" THEN "ended" ELSE controller[b]

\* onBrokerUp, onBrokerWarning or onBrokerDown if the status has changed; the
\* monitor is released.
emitEventIfBrokerStatusHasChanged(b, t) ==
  /\ pc[b][t] = "compare"
  /\ pc' = [pc EXCEPT ![b][t] = "idle"]
  /\ local' = [local EXCEPT ![b][t] = "DOWN"]
  /\ \/ /\ HasChanged(b, t)
        /\ Callback(b)
        /\ \/ UNCHANGED controller
           \/ /\ ListenerThrows
              /\ controller' = [controller EXCEPT ![b] = ControllerAfterThrow(b, t)]
     \/ /\ ~ HasChanged(b, t)
        /\ UNCHANGED <<notified, beat, controller>>
  /\ UNCHANGED <<reachable, registered, kfBrokerStatus, kfBrokerMetadata, executor>>

Run(b, t) ==
  \/ connect(b, t)
  \/ updateMetadataSync(b, t)
  \/ SetReachable(b, t)
  \/ SetDown(b, t)
  \/ initializeBrokerMetadata(b, t)
  \/ emitEventIfBrokerStatusHasChanged(b, t)

-----------------------------------------------------------------------------
(* The environment *)

ReachabilityChanges(b) ==
  /\ reachable' = [reachable EXCEPT ![b] = ~ @]
  /\ UNCHANGED <<registered, kfBrokerStatus, kfBrokerMetadata, notified, beat,
                 executor, controller, pc, local>>

RegistrationChanges(b) ==
  /\ registered' = IF b \in registered THEN registered \ {b} ELSE registered \cup {b}
  /\ UNCHANGED <<reachable, kfBrokerStatus, kfBrokerMetadata, notified, beat,
                 executor, controller, pc, local>>

Internal(b) ==
  \/ pollingCommand(b)
  \/ \E t \in Thread : Run(b, t)
  \/ ReachabilityChanges(b)
  \/ RegistrationChanges(b)

Next == \E b \in Broker :
  \/ startMonitoring(b)
  \/ stopMonitoring(b)
  \/ \E t \in Updater : updateStatusAsync(b, t)
  \/ Internal(b)

\* As in ZKNodeWatcher: polls follow one another, and whichever thread is in
\* the monitor leaves it (the socket has a timeout of 1.5 s).
Fairness == \A b \in Broker :
  /\ WF_vars(pollingCommand(b))
  /\ WF_vars(\E t \in Thread : Run(b, t))

Spec == Init /\ [][Next]_vars /\ Fairness

-----------------------------------------------------------------------------
(* Properties *)

\* While no thread is inside emitEventIfBrokerStatusHasChanged, the listener
\* knows the status a client would read.
ListenerUpToDate ==
  \A b \in Broker : MonitorFree(b) => notified[b] = kfBrokerStatus[b]

\* One thread at a time is inside the synchronized method of a watcher.
MutualExclusion ==
  \A b \in Broker : \A s, t \in Thread :
    pc[b][s] \in InMonitor /\ pc[b][t] \in InMonitor => s = t

\* A thread that has set the status and not yet compared keeps, in local, the
\* status the listener knows; without such a thread the listener is up to date.
HasSet == {"down", "compare"}
ListenerTracksStatus ==
  \A b \in Broker :
    /\ \A t \in Thread : pc[b][t] \in HasSet => notified[b] = local[b][t]
    /\ (\A t \in Thread : pc[b][t] \notin HasSet) => notified[b] = kfBrokerStatus[b]

\* The inductive invariant behind ListenerUpToDate and the refinement.
IInv == TypeOK /\ MutualExclusion /\ ListenerTracksStatus

\* The watchers implement EndpointStatus: callbacks are the status changes,
\* in order, each exactly once, and none without a change.
Abstract == INSTANCE EndpointStatus
              WITH Endpoint <- Broker, status <- kfBrokerStatus
ImplementsEndpointStatus == Abstract!ASpec

\* If a broker that is being polled stops failing or recovering, the status and
\* the listener settle on its side of DOWN: DOWN if it is unreachable, UP or
\* WARNING if it is not, and WARNING if Zookeeper does not list it.
StatusConverges ==
  \A b \in Broker :
    /\ \A up \in BOOLEAN :
         <>[](controller[b] = "scheduled" /\ reachable[b] = up)
           => <>[](/\ (kfBrokerStatus[b] # "DOWN") = up
                   /\ notified[b] = kfBrokerStatus[b])
    /\ <>[](controller[b] = "scheduled" /\ reachable[b] /\ b \notin registered)
         => <>[](kfBrokerStatus[b] = "WARNING")

\* What KFBrokerStatusName says of UP and WARNING, which differ by the registration
\* alone: a broker that is being polled, that accepts a socket and that Zookeeper
\* lists becomes UP and stays so.
RegisteredIsUp ==
  \A b \in Broker :
    <>[](controller[b] = "scheduled" /\ reachable[b] /\ b \in registered)
      => <>[](kfBrokerStatus[b] = "UP")

=============================================================================
