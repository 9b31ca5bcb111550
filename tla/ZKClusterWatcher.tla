--------------------------- MODULE ZKClusterWatcher ---------------------------
(***************************************************************************)
(* zookeeper/ZKClusterWatcher.java with the node watchers it owns: the     *)
(* session it keeps with the ensemble, the events of that session, the     *)
(* restart of an expired one, and the calls start() and stop() of a client *)
(* thread that run against them.                                           *)
(*                                                                         *)
(* The ZooKeeper client library is external.  A Session is one ZooKeeper   *)
(* object: it has its own event thread, which calls process(event) for     *)
(* each event in order, also for those still queued when the object is     *)
(* closed.  A Connection is one ZKConnection object, the wrapper that the  *)
(* field zkConnection points to and that holds the ZooKeeper object once   *)
(* connect has returned.  The sets of both bound how often one is created. *)
(***************************************************************************)
EXTENDS Naturals, Sequences, FiniteSets

CONSTANTS Node, Updater, Poller, MaxTasks, ListenerThrows,  \* see ZKNodeWatcher
          Session,      \* ZooKeeper objects
          Connection,   \* ZKConnection objects
          Client,       \* the thread that calls start() and stop()
          Null,         \* a null reference
          ConnectFails, \* may new ZooKeeper(...) throw IOException?
          MaxEvents     \* bound on the events a session has queued

ASSUME ActorAssumption == Client \notin Session
ASSUME NullAssumption == Null \notin Session /\ Null \notin Connection
ASSUME ConnectAssumption == ConnectFails \in BOOLEAN

VARIABLES reachable, zkNodeStatus, notified, beat, executor, tasks, pc, local
VARIABLES zkClusterStatus, \* AtomicReference
          zkConnection,    \* the field: a Connection or Null
          connection,      \* of each ZKConnection: its ZooKeeper object or Null
          created,         \* the ZKConnection objects there are
          session,         \* state of each ZooKeeper object
          events,          \* queue of its event thread
          op, todo,        \* what each thread is doing, and the nodes it has
                           \* still to visit in a forEach
          told,            \* the last quorum callback made
          outcome,         \* how the client's last call ended
          overlap          \* has a call of the client met a restart?

nodeVars == <<reachable, zkNodeStatus, notified, beat, executor, tasks, pc, local>>
sessionVars == <<zkConnection, connection, created, session>>
vars == <<nodeVars, zkClusterStatus, sessionVars, events, op, todo, told,
          outcome, overlap>>

Nodes == INSTANCE ZKNodeWatcher

ClusterStatus == {"QUORUM", "NO_QUORUM"}
Event == {"SyncConnected", "Disconnected", "Expired"}
Live == {"connecting", "connected", "disconnected"}
SessionState == {"unused", "expired", "closed"} \cup Live

\* The event threads and the client thread run the same private methods.
\* "close", "clear": closeZKConnection; "open", "connect": openZKConnection;
\* "updateNodes", "startNodes", "stopNodes": forEach loops over todo.
Actor == Session \cup {Client}
Op == {"idle", "onGetQuorum", "onLackOfQuorum", "updateNodes", "close", "clear",
       "open", "connect", "startNodes", "stopNodes"}
Reconnecting == {"close", "clear", "open", "connect"}

TypeOK ==
  /\ Nodes!TypeOK
  /\ zkClusterStatus \in ClusterStatus
  /\ zkConnection \in Connection \cup {Null}
  /\ connection \in [Connection -> Session \cup {Null}]
  /\ created \in SUBSET Connection
  /\ session \in [Session -> SessionState]
  /\ events \in [Session -> Seq(Event)]
  /\ op \in [Actor -> Op]
  /\ todo \in [Actor -> SUBSET Node]
  /\ told \in ClusterStatus
  /\ outcome \in {"none", "returned", "threw", "stopped"}
  /\ overlap \in BOOLEAN

Init ==
  /\ Nodes!Init
  /\ zkClusterStatus = "NO_QUORUM"
  /\ zkConnection = Null
  /\ connection = [c \in Connection |-> Null]
  /\ created = {}
  /\ session = [s \in Session |-> "unused"]
  /\ events = [s \in Session |-> <<>>]
  /\ op = [a \in Actor |-> "idle"]
  /\ todo = [a \in Actor |-> {}]
  /\ told = "NO_QUORUM"
  /\ outcome = "none"
  /\ overlap = FALSE

Becomes(a, x) == op' = [op EXCEPT ![a] = x]

\* Records, in a step that leads to op', that two threads are opening or closing
\* the connection at once: nothing in the class keeps them apart.
Overlaps ==
  overlap' = (overlap \/ \E a, b \in Actor :
                            a # b /\ {op'[a], op'[b]} \subseteq Reconnecting)

-----------------------------------------------------------------------------
(* closeZKConnection and openZKConnection, by the client or an event thread *)

AfterClose(a) == IF a = Client THEN "stopNodes" ELSE "open"

\* The objects that new makes; which one it is does not matter.
NewConnection == CHOOSE c \in Connection : c \notin created
Unused == {s \in Session : session[s] = "unused"}
NewSession == CHOOSE s \in Unused : TRUE

\* The bound on restarts and starts: one more of them may begin only if an
\* object is left when all those that have begun, or that a queued event will
\* begin, have taken theirs.
WillOpen ==
  {a \in Actor :
     \/ op[a] = "open"
     \/ /\ a \in Session
        /\ op[a] \in {"close", "clear"} \/ \E i \in DOMAIN events[a] : events[a][i] = "Expired"}
MayOpenAnother == Cardinality(WillOpen) < Cardinality(Connection \ created)

\* Mutant: the object is forgotten, its session is not closed.
CloseConnectionForgets(a) ==
  /\ op[a] = "close"
  /\ Becomes(a, "clear")
  /\ UNCHANGED <<nodeVars, zkClusterStatus, sessionVars, events, todo, told, outcome>>
  /\ Overlaps

\* ZKConnection.close, if there is one; the NullPointerException of one that
\* never connected is swallowed.
CloseConnection(a) ==
  /\ op[a] = "close"
  /\ \/ /\ zkConnection = Null
        /\ Becomes(a, AfterClose(a))
        /\ todo' = [todo EXCEPT ![a] = IF a = Client THEN Node ELSE {}]
        /\ UNCHANGED session
     \/ /\ zkConnection # Null
        /\ Becomes(a, "clear")
        /\ session' = [s \in Session |-> IF s = connection[zkConnection]
                                           THEN "closed" ELSE session[s]]
        /\ UNCHANGED todo
  /\ UNCHANGED <<nodeVars, zkClusterStatus, zkConnection, connection, created,
                 events, told, outcome>>
  /\ Overlaps

\* The finally clause: zkConnection = null.
ClearConnection(a) ==
  /\ op[a] = "clear"
  /\ zkConnection' = Null
  /\ Becomes(a, AfterClose(a))
  /\ todo' = [todo EXCEPT ![a] = IF a = Client THEN Node ELSE {}]
  /\ UNCHANGED <<nodeVars, zkClusterStatus, connection, created, session, events,
                 told, outcome>>
  /\ Overlaps

\* zkConnection = new ZKConnection(this)
OpenConnection(a) ==
  /\ op[a] = "open"
  /\ created # Connection
  /\ zkConnection' = NewConnection
  /\ created' = created \cup {NewConnection}
  /\ Becomes(a, "connect")
  /\ UNCHANGED <<nodeVars, zkClusterStatus, connection, session, events, todo,
                 told, outcome>>
  /\ Overlaps

\* zkConnection.connect(...): the field is read again, and may be null by now;
\* the constructor of ZooKeeper may throw.
Connect(a) ==
  /\ op[a] = "connect"
  /\ \/ /\ zkConnection # Null
        /\ Unused # {}
        /\ session' = [session EXCEPT ![NewSession] = "connecting"]
        /\ connection' = [connection EXCEPT ![zkConnection] = NewSession]
        /\ Becomes(a, IF a = Client THEN "startNodes" ELSE "idle")
        /\ todo' = [todo EXCEPT ![a] = IF a = Client THEN Node ELSE {}]
        /\ UNCHANGED outcome
     \/ /\ ConnectFails \/ zkConnection = Null
        /\ Becomes(a, "idle")
        /\ outcome' = IF a = Client THEN "threw" ELSE outcome
        /\ UNCHANGED <<session, connection, todo>>
  /\ UNCHANGED <<nodeVars, zkClusterStatus, zkConnection, created, events, told>>
  /\ Overlaps

-----------------------------------------------------------------------------
(* process(event), on the event thread of session s *)

\* Mutants: Expired is taken for a kind of connection; it does not restart.
StatusAfterExpiredIsQuorum(e) == IF e = "Disconnected" THEN "NO_QUORUM" ELSE "QUORUM"
OpAfterNoRestart(e) == IF e = "SyncConnected" THEN "onGetQuorum" ELSE "onLackOfQuorum"

\* The status each event stands for, and what process does after setting it.
StatusAfter(e) == IF e = "SyncConnected" THEN "QUORUM" ELSE "NO_QUORUM"
OpAfter(e) == CASE e = "SyncConnected" -> "onGetQuorum"
                [] e = "Disconnected"  -> "onLackOfQuorum"
                [] e = "Expired"       -> "close"

\* Throws IllegalStateException, dropping the event, without a connection.
Process(s) ==
  /\ op[s] = "idle"
  /\ events[s] # <<>>
  /\ events' = [events EXCEPT ![s] = Tail(@)]
  /\ \/ /\ zkConnection = Null
        /\ UNCHANGED <<zkClusterStatus, op>>
     \/ /\ zkConnection # Null
        /\ zkClusterStatus' = StatusAfter(Head(events[s]))
        /\ Becomes(s, OpAfter(Head(events[s])))
  /\ UNCHANGED <<nodeVars, sessionVars, todo, told, outcome>>
  /\ Overlaps

\* onGetQuorum or onLackOfQuorum.  A listener that throws keeps process from
\* asking the nodes for an update.
QuorumCallback(s) ==
  /\ op[s] \in {"onGetQuorum", "onLackOfQuorum"}
  /\ told' = IF op[s] = "onGetQuorum" THEN "QUORUM" ELSE "NO_QUORUM"
  /\ \/ /\ Becomes(s, "updateNodes")
        /\ todo' = [todo EXCEPT ![s] = Node]
     \/ /\ ListenerThrows
        /\ Becomes(s, "idle")
        /\ UNCHANGED todo
  /\ UNCHANGED <<nodeVars, zkClusterStatus, sessionVars, events, outcome>>
  /\ Overlaps

-----------------------------------------------------------------------------
(* The forEach loops over the node watchers: one call at a time *)

\* Actor a leaves loop l once it has visited every node.
LoopEnds(a, l) ==
  /\ op[a] = l
  /\ todo[a] = {}
  /\ Becomes(a, "idle")
  /\ outcome' = CASE l = "startNodes" -> "returned"
                  [] l = "stopNodes" -> "stopped"
                  [] OTHER -> outcome
  /\ UNCHANGED <<nodeVars, zkClusterStatus, sessionVars, events, todo, told>>
  /\ Overlaps

\* Actor a visits node n in loop l.
Visit(a, l, n) ==
  /\ op[a] = l
  /\ n \in todo[a]
  /\ todo' = [todo EXCEPT ![a] = @ \ {n}]
  /\ UNCHANGED <<zkClusterStatus, sessionVars, events, op, told, outcome, overlap>>

UpdateNode(s, n) ==
  /\ Visit(s, "updateNodes", n)
  /\ \E t \in Updater : Nodes!updateStatus(n, t)

StopNode(n) == Visit(Client, "stopNodes", n) /\ Nodes!stopMonitoring(n)

StartNode(n) == Visit(Client, "startNodes", n) /\ Nodes!startMonitoring(n)

\* scheduleWithFixedDelay throws RejectedExecutionException out of start().
StartNodeRejected(n) ==
  /\ op[Client] = "startNodes"
  /\ n \in todo[Client]
  /\ executor[n] = "shutdown"
  /\ Becomes(Client, "idle")
  /\ todo' = [todo EXCEPT ![Client] = {}]
  /\ outcome' = "threw"
  /\ UNCHANGED <<nodeVars, zkClusterStatus, sessionVars, events, told>>
  /\ Overlaps

-----------------------------------------------------------------------------
(* The client's calls *)

\* start() returns at once if there is a connection object.
Start ==
  /\ op[Client] = "idle"
  /\ \/ /\ zkConnection # Null
        /\ outcome' = "returned"
        /\ UNCHANGED op
     \/ /\ zkConnection = Null
        /\ MayOpenAnother
        /\ Becomes(Client, "open")
        /\ UNCHANGED outcome
  /\ UNCHANGED <<nodeVars, zkClusterStatus, sessionVars, events, todo, told>>
  /\ Overlaps

Stop ==
  /\ op[Client] = "idle"
  /\ Becomes(Client, "close")
  /\ UNCHANGED <<nodeVars, zkClusterStatus, sessionVars, events, todo, told, outcome>>
  /\ Overlaps

-----------------------------------------------------------------------------
(* The ensemble and the network: what happens to a session *)

SessionMoves(s, from, to, e) ==
  /\ session[s] \in from
  /\ session' = [session EXCEPT ![s] = to]
  /\ Len(events[s]) < MaxEvents
  /\ events' = [events EXCEPT ![s] = Append(@, e)]
  /\ UNCHANGED <<nodeVars, zkClusterStatus, zkConnection, connection, created, op,
                 todo, told, outcome, overlap>>

SessionConnects(s) ==
  SessionMoves(s, {"connecting", "disconnected"}, "connected", "SyncConnected")

SessionDisconnects(s) ==
  SessionMoves(s, {"connected"}, "disconnected", "Disconnected")

\* The client library learns of the expiry when it reaches the ensemble again,
\* so a Disconnected event always comes first.
SessionExpires(s) ==
  /\ MayOpenAnother
  /\ SessionMoves(s, {"disconnected"}, "expired", "Expired")

\* The threads inside the node watchers, and the nodes' own failures.
NodeStep(n) ==
  /\ Nodes!Internal(n)
  /\ UNCHANGED <<zkClusterStatus, sessionVars, events, op, todo, told, outcome, overlap>>

-----------------------------------------------------------------------------

\* The next step of a method that actor a is executing.
Advance(a) ==
  \/ CloseConnection(a)
  \/ ClearConnection(a)
  \/ OpenConnection(a)
  \/ Connect(a)
  \/ \E l \in {"updateNodes", "startNodes", "stopNodes"} : LoopEnds(a, l)

EventThread(s) ==
  \/ Process(s)
  \/ QuorumCallback(s)
  \/ \E n \in Node : UpdateNode(s, n)
  \/ Advance(s)

ClientThread ==
  \/ \E n \in Node : StartNode(n) \/ StopNode(n) \/ StartNodeRejected(n)
  \/ Advance(Client)

Next ==
  \/ Start
  \/ Stop
  \/ ClientThread
  \/ \E s \in Session : EventThread(s)
  \/ \E s \in Session :
       SessionConnects(s) \/ SessionDisconnects(s) \/ SessionExpires(s)
  \/ \E n \in Node : NodeStep(n)

\* The threads of the program go on; calls of start() and stop() and the fate
\* of sessions and nodes are not promised to happen.
Fairness ==
  /\ WF_vars(ClientThread)
  /\ \A s \in Session : WF_vars(EventThread(s))
  /\ \A n \in Node : /\ WF_nodeVars(Nodes!pollingCommand(n))
                     /\ WF_nodeVars(\E t \in Updater \cup {Poller} : Nodes!Run(n, t))

Spec == Init /\ [][Next]_vars /\ Fairness

-----------------------------------------------------------------------------
(* Properties *)

Open(s) == session[s] \in Live

\* Every session that is open can be reached, and so closed, through the field
\* zkConnection, unless two threads have met in closeZKConnection and
\* openZKConnection.
SessionsOwned ==
  ~ overlap =>
    \A s \in Session :
      Open(s) => zkConnection # Null /\ connection[zkConnection] = s

\* No event left, no thread inside the watcher.
Quiet == \A a \in Actor : op[a] = "idle" /\ (a \in Session => events[a] = <<>>)

\* Until the monitor is first stopped, once the events of its session have been
\* processed the cluster status is that of the session, and the listener was
\* last told the same: neither a restart nor the events of the session it
\* replaced leave a stale status.
QuorumFollowsSession ==
  /\ Quiet /\ ~ overlap
  /\ zkConnection # Null /\ connection[zkConnection] # Null
  /\ \A n \in Node : executor[n] = "open"
  => /\ zkClusterStatus = "QUORUM" <=> session[connection[zkConnection]] = "connected"
     /\ told = zkClusterStatus

\* An expired session is replaced: its event thread opens another one, unless
\* connecting fails, which leaves a ZKConnection without a session, or the
\* client stops the monitor.
ExpiredIsReplaced ==
  \A s \in Session :
    session[s] = "expired" ~>
      \/ zkConnection # Null /\ connection[zkConnection] \notin {s, Null}
      \/ /\ zkConnection # Null /\ connection[zkConnection] = Null
         /\ \A a \in Actor : op[a] # "connect"
      \/ outcome = "stopped"

=============================================================================
