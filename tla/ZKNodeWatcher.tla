---------------------------- MODULE ZKNodeWatcher ----------------------------
(***************************************************************************)
(* zookeeper/ZKNodeWatcher.java: the object that polls one Zookeeper       *)
(* server with the four-letter word "stat" and tells a listener when the   *)
(* answer changes.  The module holds one watcher per node of Node.         *)
(*                                                                         *)
(* A watcher is used by several threads at once: the single worker of its  *)
(* scheduled executor (Poller) and one throw-away thread per call of       *)
(* updateStatus (a member of Updater; the set bounds how many of them are  *)
(* alive together).  They meet in the synchronized method                  *)
(* emitEventIfZKNodeStatusHasChanged, whose steps are kept apart: the      *)
(* answer of the server, the getAndSet, the comparison with the callback.  *)
(***************************************************************************)
EXTENDS Naturals

CONSTANTS Node,           \* Zookeeper servers, one watcher each
          Updater,        \* threads started by updateStatus, per node
          Poller,         \* the worker thread of the watcher's executor
          MaxTasks,       \* bound on the calls of startMonitoring
          ListenerThrows  \* may the client's callback throw?

ASSUME PollerAssumption == Poller \notin Updater
ASSUME MaxTasksAssumption == MaxTasks \in Nat
ASSUME ListenerAssumption == ListenerThrows \in BOOLEAN

VARIABLES reachable,    \* does the server answer "stat"? (the environment)
          zkNodeStatus, \* the AtomicReference of the watcher
          notified,     \* what the listener was last told
          beat,         \* callbacks made, modulo 2 (see EndpointStatus)
          executor,     \* "open" or "shutdown"
          tasks,        \* periodic polling tasks that are still scheduled
          pc,           \* where each thread of each watcher is
          local         \* its answer from the server, then the old status

vars == <<reachable, zkNodeStatus, notified, beat, executor, tasks, pc, local>>

Status == {"UP", "DOWN"}
Thread == Updater \cup {Poller}

\* "idle": no such thread, or the poller between two polls; "entering": about
\* to take the watcher's monitor; "polled": inside it, the server has answered;
\* "compare": inside it, the new status is set and the old one is in local.
InMonitor == {"polled", "compare"}
PC == {"idle", "entering"} \cup InMonitor

\* No thread is inside the synchronized method of watcher n.
MonitorFree(n) == \A t \in Thread : pc[n][t] \notin InMonitor

TypeOK ==
  /\ reachable \in [Node -> BOOLEAN]
  /\ zkNodeStatus \in [Node -> Status]
  /\ notified \in [Node -> Status]
  /\ beat \in [Node -> 0..1]
  /\ executor \in [Node -> {"open", "shutdown"}]
  /\ tasks \in [Node -> Nat]
  /\ pc \in [Node -> [Thread -> PC]]
  /\ local \in [Node -> [Thread -> Status]]

\* The constructor: DOWN, an executor, no polling task yet.  The listener has
\* been told nothing and takes the node to be DOWN.
Init ==
  /\ reachable \in [Node -> BOOLEAN]
  /\ zkNodeStatus = [n \in Node |-> "DOWN"]
  /\ notified = [n \in Node |-> "DOWN"]
  /\ beat = [n \in Node |-> 0]
  /\ executor = [n \in Node |-> "open"]
  /\ tasks = [n \in Node |-> 0]
  /\ pc = [n \in Node |-> [t \in Thread |-> "idle"]]
  /\ local = [n \in Node |-> [t \in Thread |-> "DOWN"]]

-----------------------------------------------------------------------------
(* The owner's calls *)

\* scheduleWithFixedDelay: every call adds a periodic task, none is refused
\* until the executor has been shut down.
startMonitoring(n) ==
  /\ executor[n] = "open"
  /\ tasks' = [tasks EXCEPT ![n] = @ + 1]
  /\ UNCHANGED <<reachable, zkNodeStatus, notified, beat, executor, pc, local>>

\* Mutant: the executor takes no new task but goes on with those it has.
stopMonitoringKeepsTasks(n) ==
  /\ executor' = [executor EXCEPT ![n] = "shutdown"]
  /\ UNCHANGED <<reachable, zkNodeStatus, notified, beat, tasks, pc, local>>

\* cancel, shutdown, a bounded wait and shutdownNow: no poll starts from here
\* on, the one that is running is not waited for beyond 200 ms.  Neither a
\* thread entering the monitor nor one reading a socket heeds the interrupt.
stopMonitoring(n) ==
  /\ executor' = [executor EXCEPT ![n] = "shutdown"]
  /\ tasks' = [tasks EXCEPT ![n] = 0]
  /\ UNCHANGED <<reachable, zkNodeStatus, notified, beat, pc, local>>

\* A new thread on its way to the synchronized method, whatever the state of
\* the executor.
updateStatus(n, t) ==
  /\ t \in Updater
  /\ pc[n][t] = "idle"
  /\ pc' = [pc EXCEPT ![n][t] = "entering"]
  /\ UNCHANGED <<reachable, zkNodeStatus, notified, beat, executor, tasks, local>>

-----------------------------------------------------------------------------
(* The threads *)

\* The delay of a periodic task elapses.
pollingCommand(n) ==
  /\ tasks[n] > 0
  /\ pc[n][Poller] = "idle"
  /\ pc' = [pc EXCEPT ![n][Poller] = "entering"]
  /\ UNCHANGED <<reachable, zkNodeStatus, notified, beat, executor, tasks, local>>

\* Mutant: the method is not synchronized.
MayEnterUnsynchronized(n) == TRUE

\* The method is synchronized.
MayEnter(n) == MonitorFree(n)

\* The thread takes the watcher's monitor and asks the server.
send4LetterWord(n, t) ==
  /\ pc[n][t] = "entering"
  /\ MayEnter(n)
  /\ pc' = [pc EXCEPT ![n][t] = "polled"]
  /\ local' = [local EXCEPT ![n][t] = IF reachable[n] THEN "UP" ELSE "DOWN"]
  /\ UNCHANGED <<reachable, zkNodeStatus, notified, beat, executor, tasks>>

\* Mutant: a server that does not answer leaves the status as it was.
getAndSetStatusOfAnswer(n, t) ==
  /\ pc[n][t] = "polled"
  /\ zkNodeStatus' = [zkNodeStatus EXCEPT
                         ![n] = IF local[n][t] = "UP" THEN "UP" ELSE @]
  /\ local' = [local EXCEPT ![n][t] = zkNodeStatus[n]]
  /\ pc' = [pc EXCEPT ![n][t] = "compare"]
  /\ UNCHANGED <<reachable, notified, beat, executor, tasks>>

\* The answer becomes the status, the old status stays with the thread.
getAndSetStatus(n, t) ==
  /\ pc[n][t] = "polled"
  /\ zkNodeStatus' = [zkNodeStatus EXCEPT ![n] = local[n][t]]
  /\ local' = [local EXCEPT ![n][t] = zkNodeStatus[n]]
  /\ pc' = [pc EXCEPT ![n][t] = "compare"]
  /\ UNCHANGED <<reachable, notified, beat, executor, tasks>>

\* The method has compared old and new status, and called the listener.
Callback(n) ==
  /\ notified' = [notified EXCEPT ![n] = zkNodeStatus[n]]
  /\ beat' = [beat EXCEPT ![n] = 1 - @]

\* Mutant: only a failure counts as a change, a recovery does not.
HasChangedIfDown(n, t) ==
  local[n][t] # zkNodeStatus[n] /\ zkNodeStatus[n] = "DOWN"

HasChanged(n, t) == local[n][t] # zkNodeStatus[n]

\* A callback that throws ends the periodic task that made it (if it is not
\* cancelled already): the executor never runs that task again.
TasksAfterThrow(n, t) ==
  IF t = Poller /\ tasks[n] > 0 THEN tasks[n] - 1 ELSE tasks[n]

\* onNodeUp or onNodeDown if the status has changed; the monitor is released.
emitEventIfZKNodeStatusHasChanged(n, t) ==
  /\ pc[n][t] = "compare"
  /\ pc' = [pc EXCEPT ![n][t] = "idle"]
  /\ local' = [local EXCEPT ![n][t] = "DOWN"]
  /\ \/ /\ HasChanged(n, t)
        /\ Callback(n)
        /\ \/ UNCHANGED tasks
           \/ ListenerThrows /\ tasks' = [tasks EXCEPT ![n] = TasksAfterThrow(n, t)]
     \/ /\ ~ HasChanged(n, t)
        /\ UNCHANGED <<notified, beat, tasks>>
  /\ UNCHANGED <<reachable, zkNodeStatus, executor>>

Run(n, t) ==
  \/ send4LetterWord(n, t)
  \/ getAndSetStatus(n, t)
  \/ emitEventIfZKNodeStatusHasChanged(n, t)

-----------------------------------------------------------------------------
(* The environment: a server, or the network on the way to it, fails and
   comes back *)
ReachabilityChanges(n) ==
  /\ reachable' = [reachable EXCEPT ![n] = ~ @]
  /\ UNCHANGED <<zkNodeStatus, notified, beat, executor, tasks, pc, local>>

\* Every step that needs no call of the watcher's owner.
Internal(n) ==
  \/ pollingCommand(n)
  \/ \E t \in Thread : Run(n, t)
  \/ ReachabilityChanges(n)

\* The calls of the owner; MaxTasks bounds the polling tasks it may add.
OwnerCall(n) ==
  \/ tasks[n] < MaxTasks /\ startMonitoring(n)
  \/ stopMonitoring(n)
  \/ \E t \in Updater : updateStatus(n, t)

Next == \E n \in Node : OwnerCall(n) \/ Internal(n)

\* A started poll is followed by the next one, and whichever thread is in the
\* monitor leaves it: sockets and callbacks return.  Java promises no order
\* among the threads that wait for the monitor, and none is assumed.
Fairness == \A n \in Node :
  /\ WF_vars(pollingCommand(n))
  /\ WF_vars(\E t \in Thread : Run(n, t))

Spec == Init /\ [][Next]_vars /\ Fairness

-----------------------------------------------------------------------------
(* Properties *)

\* While no thread is inside emitEventIfZKNodeStatusHasChanged, the listener
\* knows the status a client would read: no change was lost between the
\* getAndSet of one thread and the comparison of another.
ListenerUpToDate ==
  \A n \in Node : MonitorFree(n) => notified[n] = zkNodeStatus[n]

\* One thread at a time is inside the synchronized method of a watcher.
MutualExclusion ==
  \A n \in Node : \A s, t \in Thread :
    pc[n][s] \in InMonitor /\ pc[n][t] \in InMonitor => s = t

\* The listener is one change behind exactly while a thread has set the status
\* and not yet compared: the status it knows is then the one this thread keeps.
ListenerTracksStatus ==
  \A n \in Node :
    /\ \A t \in Thread : pc[n][t] = "compare" => notified[n] = local[n][t]
    /\ (\A t \in Thread : pc[n][t] # "compare") => notified[n] = zkNodeStatus[n]

\* The inductive invariant behind ListenerUpToDate and the refinement.
IInv == TypeOK /\ MutualExclusion /\ ListenerTracksStatus

\* The watchers implement EndpointStatus: callbacks are the status changes,
\* in order, each exactly once, and none without a change.
Abstract == INSTANCE EndpointStatus
              WITH Endpoint <- Node, status <- zkNodeStatus
ImplementsEndpointStatus == Abstract!ASpec

\* If a node that is being polled stops failing or recovering, the status and
\* the listener end up with its true condition, whatever updateStatus threads
\* and throwing callbacks do meanwhile.
StatusConverges ==
  \A n \in Node : \A up \in BOOLEAN :
    <>[](tasks[n] > 0 /\ reachable[n] = up)
      => <>[](/\ zkNodeStatus[n] = (IF up THEN "UP" ELSE "DOWN")
              /\ notified[n] = zkNodeStatus[n])

\* After stopMonitoring the watcher falls silent once updateStatus is no longer
\* called: the threads that were already on their way finish, and no poll
\* follows the one that stopMonitoring may have found running.
QuietAfterStop ==
  \A n \in Node :
    /\ <>(executor[n] = "shutdown")
    /\ <>[][\A t \in Updater : ~ updateStatus(n, t)]_vars
    => <>[](\A t \in Thread : pc[n][t] = "idle")

=============================================================================
