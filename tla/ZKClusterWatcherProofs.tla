------------------------ MODULE ZKClusterWatcherProofs ------------------------
(***************************************************************************)
(* ZKClusterWatcher for any number of nodes, sessions, connections and     *)
(* queued events: types, who owns an open session, and what a client reads *)
(* of the session.                                                         *)
(***************************************************************************)
EXTENDS ZKClusterWatcher, SequenceTheorems, TLAPS

\* What a call, a thread or the environment does inside one node watcher.
NodeMove(n) ==
  \/ Nodes!startMonitoring(n)
  \/ Nodes!stopMonitoring(n)
  \/ \E t \in Updater : Nodes!updateStatus(n, t)
  \/ Nodes!Internal(n)

LEMMA EmitType ==
  ASSUME Nodes!TypeOK, NEW n \in Node, NEW t \in Nodes!Thread,
         Nodes!emitEventIfZKNodeStatusHasChanged(n, t)
  PROVE  Nodes!TypeOK'
<1> USE DEF Nodes!TypeOK, Nodes!emitEventIfZKNodeStatusHasChanged
<1>1. Nodes!TasksAfterThrow(n, t) \in Nat
  BY DEF Nodes!TasksAfterThrow
<1>2. tasks' \in [Node -> Nat]
  BY <1>1
<1>3. notified' \in [Node -> Nodes!Status]
  BY DEF Nodes!Callback
<1>4. beat' \in [Node -> 0..1]
  <2>1. beat[n] \in 0..1 /\ 1 - beat[n] \in 0..1
    OBVIOUS
  <2>2. QED
    BY <2>1 DEF Nodes!Callback
<1>5. pc' \in [Node -> [Nodes!Thread -> Nodes!PC]]
  BY DEF Nodes!PC
<1>6. local' \in [Node -> [Nodes!Thread -> Nodes!Status]]
  BY DEF Nodes!Status
<1>7. QED
  BY <1>2, <1>3, <1>4, <1>5, <1>6

\* The variables of the node watchers keep their types, and only stopMonitoring
\* shuts an executor down.
LEMMA NodeMoveType ==
  ASSUME Nodes!TypeOK, NEW n \in Node, NodeMove(n)
  PROVE  Nodes!TypeOK'
<1> USE DEF Nodes!TypeOK
<1>1. CASE Nodes!startMonitoring(n)
  BY <1>1 DEF Nodes!startMonitoring
<1>2. CASE Nodes!stopMonitoring(n)
  BY <1>2 DEF Nodes!stopMonitoring
<1>3. ASSUME NEW t \in Updater, Nodes!updateStatus(n, t)
      PROVE  Nodes!TypeOK'
  BY <1>3 DEF Nodes!updateStatus, Nodes!Thread, Nodes!PC
<1>4. CASE Nodes!pollingCommand(n)
  BY <1>4 DEF Nodes!pollingCommand, Nodes!Thread, Nodes!PC
<1>5. CASE Nodes!ReachabilityChanges(n)
  BY <1>5 DEF Nodes!ReachabilityChanges
<1>6. ASSUME NEW t \in Nodes!Thread, Nodes!send4LetterWord(n, t)
      PROVE  Nodes!TypeOK'
  BY <1>6 DEF Nodes!send4LetterWord, Nodes!PC, Nodes!InMonitor, Nodes!Status
<1>7. ASSUME NEW t \in Nodes!Thread, Nodes!getAndSetStatus(n, t)
      PROVE  Nodes!TypeOK'
  BY <1>7 DEF Nodes!getAndSetStatus, Nodes!PC, Nodes!InMonitor
<1>8. QED
  BY <1>1, <1>2, <1>3, <1>4, <1>5, <1>6, <1>7, EmitType DEF NodeMove, Nodes!Internal, Nodes!Run

LEMMA ExecutorsStay ==
  ASSUME NEW n \in Node, NodeMove(n), ~ Nodes!stopMonitoring(n)
  PROVE  executor' = executor
BY DEF NodeMove, Nodes!startMonitoring, Nodes!updateStatus, Nodes!Internal, Nodes!Run,
       Nodes!pollingCommand, Nodes!ReachabilityChanges, Nodes!send4LetterWord,
       Nodes!getAndSetStatus, Nodes!emitEventIfZKNodeStatusHasChanged

LEMMA NodesUnchanged ==
  ASSUME Nodes!TypeOK, UNCHANGED nodeVars
  PROVE  Nodes!TypeOK'
BY DEF nodeVars, Nodes!TypeOK

-----------------------------------------------------------------------------
(* Types *)

\* What process does after an event is one of the operations of a thread.
LEMMA OpAfterType == \A e \in Event : OpAfter(e) \in {"onGetQuorum", "onLackOfQuorum", "close"}
BY DEF OpAfter, Event

LEMMA AfterCloseType == \A a : AfterClose(a) \in {"stopNodes", "open"}
BY DEF AfterClose

LEMMA OpType ==
  Op = {"idle", "onGetQuorum", "onLackOfQuorum", "updateNodes", "close", "clear",
        "open", "connect", "startNodes", "stopNodes"}
BY DEF Op

\* A thread that goes on to an operation keeps the types of op and overlap.
LEMMA BecomesType ==
  ASSUME TypeOK, NEW a \in Actor, NEW x \in Op, Becomes(a, x), Overlaps
  PROVE  op' \in [Actor -> Op] /\ overlap' \in BOOLEAN
BY DEF TypeOK, Becomes, Overlaps

\* The objects that new makes are new ones, where the model says that one is left.
LEMMA NewSessionType == Unused # {} => NewSession \in Unused
BY DEF NewSession

LEMMA NewConnectionType ==
  created # Connection /\ created \subseteq Connection
    => NewConnection \in Connection /\ NewConnection \notin created
BY DEF NewConnection

LEMMA StartStopType ==
  ASSUME TypeOK, Start \/ Stop
  PROVE  TypeOK'
<1>1. Client \in Actor /\ "open" \in Op /\ "close" \in Op /\ "idle" \in Op
  BY DEF Actor, Op
<1>2. op' \in [Actor -> Op] /\ overlap' \in BOOLEAN
  BY <1>1, BecomesType DEF Start, Stop, TypeOK, Overlaps
<1>3. Nodes!TypeOK'
  BY NodesUnchanged DEF Start, Stop, TypeOK
<1>4. QED
  BY <1>2, <1>3 DEF Start, Stop, TypeOK, sessionVars

LEMMA CloseConnectionType ==
  ASSUME TypeOK, NEW a \in Actor, CloseConnection(a)
  PROVE  TypeOK'
<1>1. "clear" \in Op /\ AfterClose(a) \in Op
  BY OpType, AfterCloseType
<1>2. op' \in [Actor -> Op] /\ overlap' \in BOOLEAN
  BY <1>1, BecomesType DEF CloseConnection
<1>3. Nodes!TypeOK'
  BY NodesUnchanged DEF CloseConnection, TypeOK
<1>4. session' \in [Session -> SessionState]
  BY DEF CloseConnection, TypeOK, SessionState
<1>5. todo' \in [Actor -> SUBSET Node]
  BY DEF CloseConnection, TypeOK
<1>6. QED
  BY <1>2, <1>3, <1>4, <1>5 DEF CloseConnection, TypeOK

LEMMA ClearConnectionType ==
  ASSUME TypeOK, NEW a \in Actor, ClearConnection(a)
  PROVE  TypeOK'
<1>1. AfterClose(a) \in Op
  BY OpType, AfterCloseType
<1>2. op' \in [Actor -> Op] /\ overlap' \in BOOLEAN
  BY <1>1, BecomesType DEF ClearConnection
<1>3. Nodes!TypeOK'
  BY NodesUnchanged DEF ClearConnection, TypeOK
<1>4. QED
  BY <1>2, <1>3 DEF ClearConnection, TypeOK

LEMMA OpenConnectionType ==
  ASSUME TypeOK, NEW a \in Actor, OpenConnection(a)
  PROVE  TypeOK'
<1>1. "connect" \in Op
  BY OpType
<1>2. op' \in [Actor -> Op] /\ overlap' \in BOOLEAN
  BY <1>1, BecomesType DEF OpenConnection
<1>3. Nodes!TypeOK'
  BY NodesUnchanged DEF OpenConnection, TypeOK
<1>4. NewConnection \in Connection
  BY NewConnectionType DEF OpenConnection, TypeOK
<1>5. QED
  BY <1>2, <1>3, <1>4 DEF OpenConnection, TypeOK

LEMMA ConnectType ==
  ASSUME TypeOK, NEW a \in Actor, Connect(a)
  PROVE  TypeOK'
<1>1. "startNodes" \in Op /\ "idle" \in Op
  BY OpType
<1>2. op' \in [Actor -> Op] /\ overlap' \in BOOLEAN
  BY <1>1, BecomesType DEF Connect
<1>3. Nodes!TypeOK'
  BY NodesUnchanged DEF Connect, TypeOK
<1>4. /\ session' \in [Session -> SessionState]
      /\ connection' \in [Connection -> Session \cup {Null}]
      /\ todo' \in [Actor -> SUBSET Node]
      /\ outcome' \in {"none", "returned", "threw", "stopped"}
  BY NewSessionType DEF Connect, TypeOK, SessionState, Live, Unused
<1>5. QED
  BY <1>2, <1>3, <1>4 DEF Connect, TypeOK

LEMMA LoopType ==
  ASSUME TypeOK, NEW a \in Actor,
         \/ \E l \in {"updateNodes", "startNodes", "stopNodes"} : LoopEnds(a, l)
         \/ a = Client /\ \E n \in Node : StartNodeRejected(n)
  PROVE  TypeOK'
<1>1. "idle" \in Op
  BY OpType
<1>2. op' \in [Actor -> Op] /\ overlap' \in BOOLEAN
  BY <1>1, BecomesType DEF LoopEnds, StartNodeRejected
<1>3. Nodes!TypeOK'
  BY NodesUnchanged DEF LoopEnds, StartNodeRejected, TypeOK
<1>4. outcome' \in {"none", "returned", "threw", "stopped"}
  BY DEF LoopEnds, StartNodeRejected, TypeOK
<1>5. todo' \in [Actor -> SUBSET Node]
  BY DEF LoopEnds, StartNodeRejected, TypeOK
<1>6. QED
  BY <1>2, <1>3, <1>4, <1>5 DEF LoopEnds, StartNodeRejected, TypeOK, sessionVars

\* A step of one node watcher: of a loop over the nodes, or of its own threads.
LEMMA NodeStepType ==
  ASSUME TypeOK, NEW n \in Node, NodeMove(n),
         UNCHANGED <<zkClusterStatus, sessionVars, events, op, told, outcome, overlap>>,
         todo' \in [Actor -> SUBSET Node]
  PROVE  TypeOK'
<1>1. Nodes!TypeOK'
  BY NodeMoveType DEF TypeOK
<1>2. QED
  BY <1>1 DEF TypeOK, sessionVars

LEMMA ProcessType ==
  ASSUME TypeOK, NEW s \in Session, Process(s)
  PROVE  TypeOK'
<1>1. s \in Actor /\ events[s] \in Seq(Event) /\ events[s] # <<>>
  BY DEF Process, Actor, TypeOK
<1>2. Head(events[s]) \in Event /\ Tail(events[s]) \in Seq(Event)
  BY <1>1
<1>3. OpAfter(Head(events[s])) \in Op
  BY <1>2, OpType, OpAfterType
<1>4. op' \in [Actor -> Op] /\ overlap' \in BOOLEAN
  BY <1>1, <1>3, BecomesType DEF Process, TypeOK, Overlaps
<1>5. Nodes!TypeOK'
  BY NodesUnchanged DEF Process, TypeOK
<1>6. zkClusterStatus' \in ClusterStatus
  BY DEF Process, StatusAfter, ClusterStatus, TypeOK
<1>7. QED
  BY <1>2, <1>4, <1>5, <1>6 DEF Process, TypeOK, sessionVars

LEMMA QuorumCallbackType ==
  ASSUME TypeOK, NEW s \in Session, QuorumCallback(s)
  PROVE  TypeOK'
<1>1. s \in Actor /\ "updateNodes" \in Op /\ "idle" \in Op
  BY OpType DEF Actor
<1>2. op' \in [Actor -> Op] /\ overlap' \in BOOLEAN
  BY <1>1, BecomesType DEF QuorumCallback
<1>3. Nodes!TypeOK'
  BY NodesUnchanged DEF QuorumCallback, TypeOK
<1>4. told' \in ClusterStatus
  BY DEF QuorumCallback, ClusterStatus
<1>5. todo' \in [Actor -> SUBSET Node]
  BY DEF QuorumCallback, TypeOK
<1>6. QED
  BY <1>2, <1>3, <1>4, <1>5 DEF QuorumCallback, TypeOK, sessionVars

LEMMA SessionMovesType ==
  ASSUME TypeOK, NEW s \in Session, NEW from, NEW to \in SessionState, NEW e \in Event,
         SessionMoves(s, from, to, e)
  PROVE  TypeOK'
<1>1. Append(events[s], e) \in Seq(Event)
  BY DEF TypeOK
<1>2. Nodes!TypeOK'
  BY NodesUnchanged DEF SessionMoves, TypeOK
<1>3. QED
  BY <1>1, <1>2 DEF SessionMoves, TypeOK

\* Every variable of the cluster watcher and of its node watchers keeps its type.
THEOREM TypeCorrect == Spec => []TypeOK
<1>1. Init => TypeOK
  <2> SUFFICES ASSUME Init PROVE TypeOK
    OBVIOUS
  <2>1. Nodes!TypeOK
    BY DEF Init, Nodes!Init, Nodes!TypeOK, Nodes!Status, Nodes!PC, Nodes!InMonitor
  <2>2. events \in [Session -> Seq(Event)]
    BY DEF Init
  <2>3. op \in [Actor -> Op] /\ session \in [Session -> SessionState]
    BY DEF Init, Op, SessionState
  <2>4. QED
    BY <2>1, <2>2, <2>3 DEF Init, TypeOK, ClusterStatus
<1>2. TypeOK /\ [Next]_vars => TypeOK'
  <2>1. Client \in Actor /\ \A s \in Session : s \in Actor
    BY DEF Actor
  <2>2. ASSUME TypeOK, NEW a \in Actor, Advance(a)
        PROVE  TypeOK'
    BY <2>2, CloseConnectionType, ClearConnectionType, OpenConnectionType, ConnectType, LoopType
    DEF Advance
  <2>3. ASSUME TypeOK, NEW n \in Node, NEW a \in Actor, NEW l, Visit(a, l, n), NodeMove(n)
        PROVE  TypeOK'
    <3>1. todo' \in [Actor -> SUBSET Node]
      BY <2>3 DEF TypeOK, Visit
    <3>2. QED
      BY <2>3, <3>1, NodeStepType DEF Visit
  <2>4. ASSUME TypeOK, NEW n \in Node,
               \/ StartNode(n) \/ StopNode(n) \/ NodeStep(n)
               \/ \E s \in Session : UpdateNode(s, n)
        PROVE  TypeOK'
    <3>1. CASE NodeStep(n)
      <4>1. NodeMove(n) /\ todo' \in [Actor -> SUBSET Node]
        BY <2>4, <3>1 DEF NodeMove, NodeStep, TypeOK
      <4>2. QED
        BY <2>4, <3>1, <4>1, NodeStepType DEF NodeStep
    <3>2. CASE StartNode(n) \/ StopNode(n) \/ \E s \in Session : UpdateNode(s, n)
      BY <2>1, <2>3, <2>4, <3>2 DEF NodeMove, StartNode, StopNode, UpdateNode
    <3>3. QED
      BY <2>4, <3>1, <3>2
  <2>5. ASSUME TypeOK, NEW s \in Session,
               SessionConnects(s) \/ SessionDisconnects(s) \/ SessionExpires(s)
        PROVE  TypeOK'
    BY <2>5, SessionMovesType
    DEF SessionConnects, SessionDisconnects, SessionExpires, SessionState, Live, Event
  <2>6. ASSUME TypeOK, UNCHANGED vars
        PROVE  TypeOK'
    <3>1. Nodes!TypeOK'
      BY <2>6, NodesUnchanged DEF vars, TypeOK
    <3>2. QED
      BY <2>6, <3>1 DEF vars, sessionVars, TypeOK
  <2>7. ASSUME TypeOK, NEW n \in Node, StartNodeRejected(n)
        PROVE  TypeOK'
    BY <2>1, <2>7, LoopType
  <2>8. QED
    BY <2>1, <2>2, <2>4, <2>5, <2>6, <2>7, StartStopType, ProcessType, QuorumCallbackType
    DEF Next, ClientThread, EventThread
<1>3. QED
  BY <1>1, <1>2, PTL DEF Spec

-----------------------------------------------------------------------------
(* Who owns an open session *)

\* At most one thread is opening or closing the connection.
Alone == \A a, b \in Actor : a # b => ~ ({op[a], op[b]} \subseteq Reconnecting)

\* The session that can be reached through the field.
Current == IF zkConnection = Null THEN Null ELSE connection[zkConnection]

\* A thread that has come past close has left no session open, and one that opens
\* the connection finds no session behind the field.
Cleared ==
  \A a \in Actor :
    /\ op[a] \in {"clear", "open", "connect"} => \A s \in Session : ~ Open(s)
    /\ op[a] \in {"open", "connect"} => Current = Null

Owned == Alone /\ Cleared /\ SessionsOwned

\* Only a ZKConnection that has been made is in use.
Created ==
  /\ zkConnection # Null => zkConnection \in created
  /\ \A c \in Connection : connection[c] # Null => c \in created

\* SessionsOwned says nothing of what a thread on its way will do to the field, and
\* so is not inductive: one that connects could replace a session that is open.
IOwned == Created /\ (~ overlap => Owned)

\* A step of a thread that leaves the connection and the sessions alone, and goes
\* on to no later part of a restart.
LEMMA QuietMovePreservesIOwned ==
  ASSUME TypeOK, IOwned, Overlaps, UNCHANGED sessionVars,
         \A b \in Actor : op'[b] = op[b] \/ op'[b] \notin {"clear", "open", "connect"}
  PROVE  IOwned'
<1>1. Created'
  BY DEF IOwned, Created, sessionVars
<1>2. ASSUME ~ overlap' PROVE Owned'
  <2>1. Owned /\ Alone' /\ ~ overlap
    BY <1>2 DEF IOwned, Overlaps, Alone
  <2>2. SessionsOwned'
    BY <2>1 DEF Owned, SessionsOwned, Open, sessionVars
  <2>3. Cleared'
    <3>1. Current' = Current /\ \A s \in Session : Open(s)' <=> Open(s)
      BY DEF Current, Open, sessionVars
    <3>2. QED
      BY <2>1, <3>1 DEF Owned, Cleared
  <2>4. QED
    BY <2>1, <2>2, <2>3 DEF Owned
<1>3. QED
  BY <1>1, <1>2 DEF IOwned

\* A step in which no thread goes on to another operation and no session is opened.
LEMMA SessionStepPreservesIOwned ==
  ASSUME TypeOK, IOwned, UNCHANGED <<zkConnection, connection, created, op, overlap>>,
         \A s \in Session : Open(s)' => Open(s)
  PROVE  IOwned'
<1>1. Created'
  BY DEF IOwned, Created
<1>2. ASSUME ~ overlap' PROVE Owned'
  <2>1. Owned /\ ~ overlap
    BY <1>2 DEF IOwned
  <2>2. SessionsOwned'
    BY <2>1 DEF Owned, SessionsOwned
  <2>3. Alone' /\ Cleared'
    BY <2>1 DEF Owned, Alone, Cleared, Current
  <2>4. QED
    BY <2>2, <2>3 DEF Owned
<1>3. QED
  BY <1>1, <1>2 DEF IOwned

\* While threads have never met, the one that goes on is the only one that opens
\* or closes the connection.
LEMMA BecomesAlone ==
  ASSUME TypeOK, NEW a \in Actor, NEW x, Becomes(a, x), Overlaps, ~ overlap',
         op[a] \in Reconnecting, IOwned
  PROVE  /\ ~ overlap /\ Owned /\ Alone'
         /\ op'[a] = x
         /\ \A b \in Actor \ {a} : op'[b] = op[b] /\ op[b] \notin Reconnecting
BY DEF TypeOK, Becomes, Overlaps, Alone, Owned, IOwned

LEMMA CloseConnectionPreservesIOwned ==
  ASSUME TypeOK, IOwned, NEW a \in Actor, CloseConnection(a)
  PROVE  IOwned'
<1>1. PICK x \in {"clear", AfterClose(a)} : Becomes(a, x)
  BY DEF CloseConnection
<1>2. Overlaps /\ op[a] \in Reconnecting /\ UNCHANGED <<zkConnection, connection, created>>
  BY DEF CloseConnection, Reconnecting
<1>3. Created'
  BY <1>2 DEF IOwned, Created
<1>4. ASSUME ~ overlap' PROVE Owned'
  <2>1. /\ ~ overlap /\ Owned /\ Alone'
        /\ \A b \in Actor \ {a} : op'[b] = op[b] /\ op[b] \notin Reconnecting
    BY <1>1, <1>2, <1>4, BecomesAlone
  <2>2. \A s \in Session : ~ Open(s)'
    BY <2>1 DEF Owned, SessionsOwned, CloseConnection, Open, Live, TypeOK
  <2>3. op'[a] = "open" => Current' = Null
    <3>1. op'[a] = "open" => zkConnection = Null
      BY DEF CloseConnection, Becomes, TypeOK
    <3>2. QED
      BY <1>2, <3>1 DEF Current
  <2>4. op'[a] # "connect"
    BY AfterCloseType DEF CloseConnection, Becomes, TypeOK
  <2>5. Cleared' /\ SessionsOwned'
    BY <2>1, <2>2, <2>3, <2>4 DEF Cleared, SessionsOwned, Reconnecting
  <2>6. QED
    BY <2>1, <2>5 DEF Owned
<1>5. QED
  BY <1>3, <1>4 DEF IOwned

LEMMA ClearConnectionPreservesIOwned ==
  ASSUME TypeOK, IOwned, NEW a \in Actor, ClearConnection(a)
  PROVE  IOwned'
<1>1. /\ Becomes(a, AfterClose(a)) /\ Overlaps /\ op[a] = "clear"
      /\ zkConnection' = Null /\ UNCHANGED <<connection, created, session>>
  BY DEF ClearConnection
<1>2. Created'
  BY <1>1 DEF IOwned, Created
<1>3. ASSUME ~ overlap' PROVE Owned'
  <2>1. ~ overlap /\ Owned /\ Alone'
    BY <1>1, <1>3, BecomesAlone DEF Reconnecting
  <2>2. \A s \in Session : ~ Open(s)'
    BY <1>1, <2>1 DEF Owned, Cleared, Open
  <2>3. Cleared' /\ SessionsOwned'
    BY <1>1, <2>2 DEF Cleared, SessionsOwned, Current
  <2>4. QED
    BY <2>1, <2>3 DEF Owned
<1>4. QED
  BY <1>2, <1>3 DEF IOwned

LEMMA OpenConnectionPreservesIOwned ==
  ASSUME TypeOK, IOwned, NEW a \in Actor, OpenConnection(a)
  PROVE  IOwned'
<1>1. /\ Becomes(a, "connect") /\ Overlaps /\ op[a] = "open"
      /\ zkConnection' = NewConnection /\ created' = created \cup {NewConnection}
      /\ UNCHANGED <<connection, session>>
      /\ NewConnection \in Connection \ created
  BY NewConnectionType DEF OpenConnection, TypeOK
<1>2. Created'
  BY <1>1 DEF IOwned, Created
<1>3. ASSUME ~ overlap' PROVE Owned'
  <2>1. ~ overlap /\ Owned /\ Alone'
    BY <1>1, <1>3, BecomesAlone DEF Reconnecting
  <2>2. \A s \in Session : ~ Open(s)'
    BY <1>1, <2>1 DEF Owned, Cleared, Open
  <2>3. Current' = Null
    BY <1>1 DEF IOwned, Created, Current
  <2>4. Cleared' /\ SessionsOwned'
    BY <2>2, <2>3 DEF Cleared, SessionsOwned
  <2>5. QED
    BY <2>1, <2>4 DEF Owned
<1>4. QED
  BY <1>2, <1>3 DEF IOwned

\* A thread that connects leaves one session open, behind the field.
LEMMA ConnectPreservesIOwned ==
  ASSUME TypeOK, IOwned, NEW a \in Actor, Connect(a)
  PROVE  IOwned'
<1>1. CASE UNCHANGED <<session, connection>>
  <2>1. UNCHANGED sessionVars /\ Overlaps
    BY <1>1 DEF Connect, sessionVars
  <2>2. \A b \in Actor : op'[b] = op[b] \/ op'[b] \notin {"clear", "open", "connect"}
    BY DEF Connect, Becomes, TypeOK
  <2>3. QED
    BY <2>1, <2>2, QuietMovePreservesIOwned
<1>2. CASE /\ zkConnection # Null /\ Unused # {}
           /\ session' = [session EXCEPT ![NewSession] = "connecting"]
           /\ connection' = [connection EXCEPT ![zkConnection] = NewSession]
           /\ Becomes(a, IF a = Client THEN "startNodes" ELSE "idle")
  <2>1. /\ Overlaps /\ op[a] = "connect" /\ UNCHANGED <<zkConnection, created>>
        /\ NewSession \in Session /\ zkConnection \in Connection
        /\ op'[a] \notin Reconnecting
    BY <1>2, NewSessionType DEF Connect, Unused, TypeOK, Becomes, Reconnecting
  <2>2. Created'
    BY <1>2, <2>1 DEF IOwned, Created, TypeOK
  <2>3. ASSUME ~ overlap' PROVE Owned'
    <3>1. /\ ~ overlap /\ Owned /\ Alone'
          /\ \A b \in Actor \ {a} : op'[b] \notin Reconnecting
      BY <1>2, <2>1, <2>3, BecomesAlone DEF Reconnecting
    <3>2. \A s \in Session : Open(s)' => s = NewSession
      BY <1>2, <2>1, <3>1 DEF Owned, Cleared, Open, TypeOK
    <3>3. connection'[zkConnection'] = NewSession
      BY <1>2, <2>1 DEF TypeOK
    <3>4. Cleared' /\ SessionsOwned'
      BY <1>2, <2>1, <3>1, <3>2, <3>3 DEF Cleared, SessionsOwned, Reconnecting
    <3>5. QED
      BY <3>1, <3>4 DEF Owned
  <2>4. QED
    BY <2>2, <2>3 DEF IOwned
<1>3. QED
  BY <1>1, <1>2 DEF Connect

\* Start goes on to open a connection where there is none, so no session is open.
LEMMA StartPreservesIOwned ==
  ASSUME TypeOK, IOwned, Start
  PROVE  IOwned'
<1>1. CASE UNCHANGED op
  BY <1>1, QuietMovePreservesIOwned DEF Start
<1>2. CASE zkConnection = Null /\ Becomes(Client, "open")
  <2>1. Overlaps /\ UNCHANGED <<zkConnection, connection, created, session>>
    BY DEF Start, sessionVars
  <2>2. Created'
    BY <2>1 DEF IOwned, Created
  <2>3. ASSUME ~ overlap' PROVE Owned'
    <3>1. Owned /\ Alone' /\ ~ overlap
      BY <2>1, <2>3 DEF IOwned, Overlaps, Alone
    <3>2. (\A s \in Session : ~ Open(s)') /\ Current' = Null
      BY <1>2, <2>1, <3>1 DEF Owned, SessionsOwned, Open, Current
    <3>3. Cleared' /\ SessionsOwned'
      BY <3>2 DEF Cleared, SessionsOwned
    <3>4. QED
      BY <3>1, <3>3 DEF Owned
  <2>4. QED
    BY <2>2, <2>3 DEF IOwned
<1>3. QED
  BY <1>1, <1>2 DEF Start

\* A step inside a node watcher moves no thread to another operation.
LEMMA NodeStepPreservesIOwned ==
  ASSUME TypeOK, IOwned, UNCHANGED <<sessionVars, op, overlap>>
  PROVE  IOwned'
BY SessionStepPreservesIOwned DEF Open, sessionVars

\* The invariant is inductive.
LEMMA NextPreservesIOwned ==
  ASSUME TypeOK, IOwned, [Next]_vars
  PROVE  IOwned'
<1>1. Client \in Actor /\ \A s \in Session : s \in Actor
  BY DEF Actor
<1>2. ASSUME NEW a \in Actor, NEW x, Becomes(a, x), x \notin {"clear", "open", "connect"},
             Overlaps, UNCHANGED sessionVars
      PROVE  IOwned'
  <2>1. \A b \in Actor : op'[b] = op[b] \/ op'[b] \notin {"clear", "open", "connect"}
    BY <1>2 DEF Becomes, TypeOK
  <2>2. QED
    BY <1>2, <2>1, QuietMovePreservesIOwned
<1>3. CASE Stop
  BY <1>1, <1>2, <1>3 DEF Stop
<1>4. ASSUME NEW s \in Session, Process(s)
      PROVE  IOwned'
  <2>1. CASE UNCHANGED op
    BY <1>4, <2>1, QuietMovePreservesIOwned DEF Process
  <2>2. CASE Becomes(s, OpAfter(Head(events[s])))
    <3>1. Head(events[s]) \in Event
      BY <1>4 DEF Process, TypeOK
    <3>2. OpAfter(Head(events[s])) \notin {"clear", "open", "connect"}
      BY <3>1, OpAfterType
    <3>3. QED
      BY <1>1, <1>2, <1>4, <2>2, <3>2 DEF Process
  <2>3. QED
    BY <1>4, <2>1, <2>2 DEF Process
<1>5. ASSUME NEW s \in Session, QuorumCallback(s)
      PROVE  IOwned'
  BY <1>1, <1>2, <1>5 DEF QuorumCallback
<1>6. ASSUME NEW a \in Actor, NEW l \in {"updateNodes", "startNodes", "stopNodes"}, LoopEnds(a, l)
      PROVE  IOwned'
  BY <1>2, <1>6 DEF LoopEnds
<1>7. ASSUME NEW n \in Node, StartNodeRejected(n)
      PROVE  IOwned'
  BY <1>1, <1>2, <1>7 DEF StartNodeRejected
<1>8. ASSUME NEW n \in Node, \/ StartNode(n) \/ StopNode(n) \/ NodeStep(n)
                            \/ \E s \in Session : UpdateNode(s, n)
      PROVE  IOwned'
  BY <1>8, NodeStepPreservesIOwned DEF StartNode, StopNode, NodeStep, UpdateNode, Visit
<1>9. ASSUME NEW s \in Session, SessionConnects(s) \/ SessionDisconnects(s) \/ SessionExpires(s)
      PROVE  IOwned'
  <2>1. /\ UNCHANGED <<zkConnection, connection, created, op, overlap>>
        /\ session[s] \in Live /\ \E to : session' = [session EXCEPT ![s] = to]
    BY <1>9 DEF SessionConnects, SessionDisconnects, SessionExpires, SessionMoves, Live
  <2>2. \A t \in Session : Open(t)' => Open(t)
    BY <2>1 DEF TypeOK, Open
  <2>3. QED
    BY <2>1, <2>2, SessionStepPreservesIOwned
<1>10. CASE UNCHANGED vars
  BY <1>10, NodeStepPreservesIOwned DEF vars
<1>11. ASSUME NEW a \in Actor, Advance(a)
       PROVE  IOwned'
  BY <1>6, <1>11, CloseConnectionPreservesIOwned, ClearConnectionPreservesIOwned,
     OpenConnectionPreservesIOwned, ConnectPreservesIOwned DEF Advance
<1>12. QED
  BY <1>1, <1>3, <1>4, <1>5, <1>7, <1>8, <1>9, <1>10, <1>11, StartPreservesIOwned
  DEF Next, ClientThread, EventThread

\* It holds in every reachable state.
THEOREM IOwnedCorrect == Spec => []IOwned
<1>1. Init => IOwned
  <2> SUFFICES ASSUME Init PROVE IOwned
    OBVIOUS
  <2>1. Created
    BY DEF Init, Created
  <2>2. Alone /\ Cleared
    BY DEF Init, Alone, Cleared, Reconnecting
  <2>3. SessionsOwned
    BY DEF Init, SessionsOwned, Open, Live
  <2>4. QED
    BY <2>1, <2>2, <2>3 DEF IOwned, Owned
<1>2. TypeOK /\ IOwned /\ [Next]_vars => IOwned'
  BY NextPreservesIOwned
<1>3. QED
  BY <1>1, <1>2, TypeCorrect, PTL DEF Spec

\* Unless two threads have reconnected at once, every open session of the Zookeeper
\* monitor can be reached, and so closed, through zkConnection.
THEOREM SessionsOwnedCorrect == Spec => []SessionsOwned
<1>1. IOwned => SessionsOwned
  BY DEF IOwned, Owned, SessionsOwned
<1>2. QED
  BY <1>1, IOwnedCorrect, PTL

\* So there is never more than one of them: restarts do not pile up sessions.
OneOpenSession == ~ overlap => \A s, t \in Session : Open(s) /\ Open(t) => s = t

THEOREM OneOpenSessionCorrect == Spec => []OneOpenSession
<1>1. SessionsOwned => OneOpenSession
  BY DEF SessionsOwned, OneOpenSession
<1>2. QED
  BY <1>1, SessionsOwnedCorrect, PTL

-----------------------------------------------------------------------------
(* What a client reads of the session *)

\* The monitor has not been stopped, which the executors of its nodes remember.
NeverStopped ==
  /\ Node # {}
  /\ \A n \in Node : executor[n] = "open"
  /\ op[Client] \in {"idle", "open", "connect", "startNodes"}

\* The client runs no event, and once it has begun to stop the nodes it does not
\* end without having stopped one.
ClientStops ==
  /\ op[Client] \notin {"onGetQuorum", "onLackOfQuorum", "updateNodes"}
  /\ op[Client] = "stopNodes" =>
       todo[Client] = Node \/ \E n \in Node : executor[n] = "shutdown"

\* The cluster status before event i of session s, and after its last one.
StatusBefore(s, i) == IF i = 1 THEN zkClusterStatus ELSE StatusAfter(events[s][i - 1])
LastStatus(s) == StatusBefore(s, Len(events[s]) + 1)

\* A session that has been replaced has nothing left to report.
Past ==
  \A s \in Session : s # Current => events[s] = <<>> /\ op[s] \in {"idle", "open", "connect"}

\* What session s still has to report ends in its state.
Reports(s) ==
  /\ LastStatus(s) = "QUORUM" <=> session[s] = "connected"
  /\ op[s] = "onGetQuorum" => zkClusterStatus = "QUORUM"
  /\ op[s] = "onLackOfQuorum" => zkClusterStatus = "NO_QUORUM"

\* Expired is the last event of a session and follows Disconnected; the thread that
\* has taken it is the one that replaces the session.
Ends(s) ==
  /\ op[s] \in {"idle", "onGetQuorum", "onLackOfQuorum", "updateNodes", "close", "clear"}
  /\ op[s] \in {"close", "clear"} => events[s] = <<>> /\ session[s] \in {"expired", "closed"}
  /\ session[s] \in {"expired", "closed"} =>
       \/ op[s] \in {"close", "clear"}
       \/ events[s] # <<>> /\ events[s][Len(events[s])] = "Expired"
  /\ \A i \in DOMAIN events[s] : events[s][i] = "Expired" =>
       i = Len(events[s]) /\ session[s] = "expired" /\ StatusBefore(s, i) = "NO_QUORUM"

Present == Current # Null => Reports(Current) /\ Ends(Current)
Absent == Current = Null => zkClusterStatus = "NO_QUORUM"

\* The listener is behind only while a thread is on its way to tell it.
Told ==
  Current = Null \/ op[Current] \notin {"onGetQuorum", "onLackOfQuorum"}
    => told = zkClusterStatus

Follows == Past /\ Present /\ Absent /\ Told

\* QuorumFollowsSession speaks of the states in which nothing is under way; this says
\* of every state what the events and the threads that are under way will do to it.
IInv == IOwned /\ ClientStops /\ (~ overlap /\ NeverStopped => Follows)

LEMMA CurrentType == TypeOK => Current \in Session \cup {Null}
BY DEF TypeOK, Current

\* Executors are shut down by stop only, for good.
LEMMA ExecutorStep ==
  ASSUME TypeOK, [Next]_vars
  PROVE  executor' = executor \/ \E n \in Node : StopNode(n)
<1>1. ASSUME NEW n \in Node, StartNode(n) \/ NodeStep(n) \/ \E s \in Session : UpdateNode(s, n)
      PROVE  executor' = executor
  BY <1>1 DEF StartNode, NodeStep, UpdateNode, Nodes!startMonitoring, Nodes!updateStatus,
       Nodes!Internal, Nodes!Run, Nodes!pollingCommand, Nodes!ReachabilityChanges,
       Nodes!send4LetterWord, Nodes!getAndSetStatus, Nodes!emitEventIfZKNodeStatusHasChanged
<1>2. ASSUME NEW a \in Actor, Advance(a)
      PROVE  executor' = executor
  BY <1>2 DEF Advance, CloseConnection, ClearConnection, OpenConnection, Connect, LoopEnds, nodeVars
<1>3. CASE \E n \in Node : StartNodeRejected(n)
  BY <1>3 DEF StartNodeRejected, nodeVars
<1>4. CASE Start \/ Stop \/ \E s \in Session : Process(s) \/ QuorumCallback(s)
  BY <1>4 DEF Start, Stop, Process, QuorumCallback, nodeVars
<1>5. CASE \E s \in Session : SessionConnects(s) \/ SessionDisconnects(s) \/ SessionExpires(s)
  BY <1>5 DEF SessionConnects, SessionDisconnects, SessionExpires, SessionMoves, nodeVars
<1>6. CASE UNCHANGED vars
  BY <1>6 DEF vars, nodeVars
<1>7. Client \in Actor /\ \A s \in Session : s \in Actor
  BY DEF Actor
<1>8. QED
  BY <1>1, <1>2, <1>3, <1>4, <1>5, <1>6, <1>7 DEF Next, ClientThread, EventThread

LEMMA ShutdownStays ==
  ASSUME TypeOK, [Next]_vars
  PROVE  \A n \in Node : executor[n] = "shutdown" => executor'[n] = "shutdown"
<1>1. ASSUME NEW n \in Node, StopNode(n)
      PROVE  executor' = [executor EXCEPT ![n] = "shutdown"]
  BY <1>1 DEF StopNode, Nodes!stopMonitoring
<1>2. QED
  BY <1>1, ExecutorStep DEF TypeOK, Nodes!TypeOK

\* The steps of an event thread and of the environment leave the client where it is.
LEMMA OthersLeaveClient ==
  ASSUME TypeOK, [Next]_vars, ~ Start, ~ Stop, ~ ClientThread
  PROVE  op'[Client] = op[Client] /\ todo'[Client] = todo[Client]
<1>1. Client \in Actor /\ \A s \in Session : s \in Actor /\ s # Client
  BY ActorAssumption DEF Actor
<1>2. ASSUME NEW s \in Session, Advance(s)
      PROVE  op'[Client] = op[Client] /\ todo'[Client] = todo[Client]
  BY <1>1, <1>2 DEF Advance, CloseConnection, ClearConnection, OpenConnection, Connect, LoopEnds,
                    Becomes, TypeOK
<1>3. ASSUME NEW s \in Session, Process(s) \/ QuorumCallback(s)
      PROVE  op'[Client] = op[Client] /\ todo'[Client] = todo[Client]
  BY <1>1, <1>3 DEF Process, QuorumCallback, Becomes, TypeOK
<1>4. ASSUME NEW s \in Session, NEW n \in Node, UpdateNode(s, n)
      PROVE  op'[Client] = op[Client] /\ todo'[Client] = todo[Client]
  BY <1>1, <1>4 DEF UpdateNode, Visit, TypeOK
<1>5. CASE \E s \in Session : SessionConnects(s) \/ SessionDisconnects(s) \/ SessionExpires(s)
  BY <1>5 DEF SessionConnects, SessionDisconnects, SessionExpires, SessionMoves
<1>6. CASE \E n \in Node : NodeStep(n)
  BY <1>6 DEF NodeStep
<1>7. CASE UNCHANGED vars
  BY <1>7 DEF vars
<1>8. QED
  BY <1>2, <1>3, <1>4, <1>5, <1>6, <1>7 DEF Next, EventThread

\* Where the client goes from what it is doing.
LEMMA ClientSteps ==
  ASSUME TypeOK, Start \/ Stop \/ ClientThread
  PROVE  \/ op[Client] = "idle" /\ op'[Client] \in {"idle", "open", "close"}
         \/ op[Client] = "close" /\ op'[Client] = "clear"
         \/ /\ op[Client] \in {"close", "clear"} /\ op'[Client] = "stopNodes"
            /\ todo'[Client] = Node
         \/ op[Client] = "open" /\ op'[Client] = "connect"
         \/ op[Client] = "connect" /\ op'[Client] \in {"startNodes", "idle"}
         \/ op[Client] = "startNodes" /\ op'[Client] \in {"startNodes", "idle"}
         \/ op[Client] = "updateNodes" /\ op'[Client] = "idle"
         \/ /\ op[Client] = "stopNodes" /\ op'[Client] = "stopNodes"
            /\ \E n \in Node : StopNode(n)
         \/ op[Client] = "stopNodes" /\ op'[Client] = "idle" /\ todo[Client] = {}
<1> Client \in Actor
  BY DEF Actor
<1>1. CASE Start \/ Stop
  BY <1>1 DEF Start, Stop, Becomes, TypeOK
<1>2. CASE CloseConnection(Client)
  BY <1>2 DEF CloseConnection, AfterClose, Becomes, TypeOK
<1>3. CASE ClearConnection(Client)
  BY <1>3 DEF ClearConnection, AfterClose, Becomes, TypeOK
<1>4. CASE OpenConnection(Client)
  BY <1>4 DEF OpenConnection, Becomes, TypeOK
<1>5. CASE Connect(Client)
  BY <1>5 DEF Connect, Becomes, TypeOK
<1>6. ASSUME NEW l \in {"updateNodes", "startNodes", "stopNodes"}, LoopEnds(Client, l)
      PROVE  \/ op[Client] \in {"startNodes", "updateNodes"} /\ op'[Client] = "idle"
             \/ op[Client] = "stopNodes" /\ op'[Client] = "idle" /\ todo[Client] = {}
  BY <1>6 DEF LoopEnds, Becomes, TypeOK
<1>7. ASSUME NEW n \in Node, StartNode(n) \/ StartNodeRejected(n)
      PROVE  op[Client] = "startNodes" /\ op'[Client] \in {"startNodes", "idle"}
  BY <1>7 DEF StartNode, StartNodeRejected, Visit, Becomes, TypeOK
<1>8. ASSUME NEW n \in Node, StopNode(n)
      PROVE  op[Client] = "stopNodes" /\ op'[Client] = "stopNodes"
  BY <1>8 DEF StopNode, Visit
<1>9. QED
  BY <1>1, <1>2, <1>3, <1>4, <1>5, <1>6, <1>7, <1>8 DEF ClientThread, Advance

LEMMA ClientStopsPreserved ==
  ASSUME TypeOK, ClientStops, [Next]_vars
  PROVE  ClientStops'
<1>1. CASE ~ Start /\ ~ Stop /\ ~ ClientThread
  BY <1>1, OthersLeaveClient, ShutdownStays DEF ClientStops
<1>2. CASE \E n \in Node : StopNode(n)
  <2>1. PICK n \in Node : StopNode(n)
    BY <1>2
  <2>2. executor'[n] = "shutdown" /\ op'[Client] = "stopNodes"
    BY <2>1 DEF StopNode, Visit, Nodes!stopMonitoring, TypeOK, Nodes!TypeOK
  <2>3. QED
    BY <2>2 DEF ClientStops
<1>3. CASE (Start \/ Stop \/ ClientThread) /\ ~ \E n \in Node : StopNode(n)
  BY <1>3, ClientSteps DEF ClientStops
<1>4. QED
  BY <1>1, <1>2, <1>3

\* A monitor that looks as if it had never been stopped has not been: a stop that
\* has ended has left an executor shut down.
LEMMA NeverStoppedBefore ==
  ASSUME TypeOK, ClientStops, [Next]_vars, NeverStopped'
  PROVE  NeverStopped
<1>1. \A n \in Node : executor[n] = "open"
  BY ShutdownStays DEF NeverStopped, TypeOK, Nodes!TypeOK
<1>2. op[Client] \in {"idle", "open", "connect", "startNodes"}
  <2>1. CASE ~ Start /\ ~ Stop /\ ~ ClientThread
    BY <2>1, OthersLeaveClient DEF NeverStopped
  <2>2. CASE Start \/ Stop \/ ClientThread
    BY <1>1, <2>2, ClientSteps DEF ClientStops, NeverStopped
  <2>3. QED
    BY <2>1, <2>2
<1>3. QED
  BY <1>1, <1>2 DEF NeverStopped

\* A step of the client or inside the nodes changes nothing that Follows speaks of.
LEMMA ElsewherePreservesFollows ==
  ASSUME TypeOK, Follows,
         UNCHANGED <<zkClusterStatus, zkConnection, connection, session, events, told>>,
         \A s \in Session : op'[s] = op[s]
  PROVE  Follows'
<1>1. Current' = Current /\ (Current # Null => Current \in Session)
  BY CurrentType DEF Current
<1>2. \A s \in Session : /\ Reports(s)' <=> Reports(s)
                         /\ Ends(s)' <=> Ends(s)
  BY DEF Reports, Ends, LastStatus, StatusBefore
<1>3. QED
  BY <1>1, <1>2 DEF Follows, Past, Present, Absent, Told

\* The thread of the current session goes on, past the callback or without one.
LEMMA ThreadPreservesFollows ==
  ASSUME TypeOK, Follows, NEW s \in Session,
         UNCHANGED <<zkClusterStatus, zkConnection, connection, session, events>>,
         op[s] \in {"onGetQuorum", "onLackOfQuorum", "updateNodes"},
         op' = [op EXCEPT ![s] = "idle"] \/ op' = [op EXCEPT ![s] = "updateNodes"],
         told' = zkClusterStatus
  PROVE  Follows'
<1>1. s = Current /\ s # Null /\ s \in Actor
  BY NullAssumption DEF Follows, Past, Actor
<1>2. Current' = Current
  BY DEF Current
<1>3. op'[s] \in {"idle", "updateNodes"} /\ \A t \in Session \ {s} : op'[t] = op[t]
  BY <1>1 DEF TypeOK, Actor
<1>4. Past'
  BY <1>1, <1>2, <1>3 DEF Follows, Past
<1>5. Reports(s)' /\ Ends(s)'
  BY <1>1, <1>3 DEF Follows, Present, Reports, Ends, LastStatus, StatusBefore
<1>6. QED
  BY <1>1, <1>2, <1>4, <1>5 DEF Follows, Present, Absent, Told

LEMMA CloseConnectionPreservesFollows ==
  ASSUME TypeOK, Follows, NEW s \in Session, CloseConnection(s)
  PROVE  Follows'
<1>1. s = Current /\ s # Null /\ s \in Actor /\ op[s] = "close"
  BY NullAssumption DEF CloseConnection, Follows, Past, Actor
<1>2. zkConnection # Null /\ connection[zkConnection] = s
  BY <1>1 DEF Current
<1>3. /\ op'[s] = "clear" /\ \A t \in Session \ {s} : op'[t] = op[t]
      /\ session'[s] = "closed"
      /\ UNCHANGED <<zkClusterStatus, events, told>> /\ Current' = s
  BY <1>1, <1>2 DEF CloseConnection, Becomes, TypeOK, Actor, Current
<1>4. events[s] = <<>> /\ session[s] # "connected" /\ LastStatus(s) # "QUORUM"
  BY <1>1 DEF Follows, Present, Reports, Ends
<1>5. Reports(s)' /\ Ends(s)'
  BY <1>3, <1>4 DEF Reports, Ends, LastStatus, StatusBefore
<1>6. Past'
  BY <1>1, <1>3 DEF Follows, Past
<1>7. QED
  BY <1>1, <1>3, <1>5, <1>6 DEF Follows, Present, Absent, Told

LEMMA ClearConnectionPreservesFollows ==
  ASSUME TypeOK, Follows, NEW s \in Session, ClearConnection(s)
  PROVE  Follows'
<1>1. s = Current /\ s # Null /\ s \in Actor /\ s # Client /\ op[s] = "clear"
  BY NullAssumption, ActorAssumption DEF ClearConnection, Follows, Past, Actor
<1>2. /\ op'[s] = "open" /\ \A t \in Session \ {s} : op'[t] = op[t]
      /\ UNCHANGED <<zkClusterStatus, events, told>> /\ Current' = Null
  BY <1>1 DEF ClearConnection, AfterClose, Becomes, TypeOK, Actor, Current
<1>3. events[s] = <<>> /\ session[s] # "connected" /\ LastStatus(s) # "QUORUM"
  BY <1>1 DEF Follows, Present, Reports, Ends
<1>4. zkClusterStatus = "NO_QUORUM"
  BY <1>3 DEF LastStatus, StatusBefore, TypeOK, ClusterStatus
<1>5. Past'
  BY <1>1, <1>2, <1>3 DEF Follows, Past
<1>6. QED
  BY <1>1, <1>2, <1>4, <1>5 DEF Follows, Present, Absent, Told

\* A thread that opens the connection has no session to lose by it.
LEMMA OpenConnectionPreservesFollows ==
  ASSUME TypeOK, Owned, Created, Follows, NEW a \in Actor, OpenConnection(a)
  PROVE  Follows'
<1>1. Current = Null /\ op[a] = "open"
  BY DEF OpenConnection, Owned, Cleared
<1>2. /\ \A t \in Session : op'[t] = op[t] \/ op'[t] = "connect"
      /\ \A t \in Session : op'[t] # op[t] => op[t] = "open"
      /\ UNCHANGED <<zkClusterStatus, events, told>>
  BY <1>1 DEF OpenConnection, Becomes, TypeOK, Actor
<1>3. Current' = Null
  BY NewConnectionType DEF OpenConnection, Created, Current, TypeOK
<1>4. Past'
  BY <1>1, <1>2, <1>3, NullAssumption DEF Follows, Past
<1>5. QED
  BY <1>1, <1>2, <1>3, <1>4 DEF Follows, Present, Absent, Told

\* The session that is opened has nothing to report yet, and the status and what the
\* listener knows are those of a cluster without a quorum.
LEMMA ConnectPreservesFollows ==
  ASSUME TypeOK, Owned, Follows, NEW a \in Actor, Connect(a)
  PROVE  Follows'
<1>1. Current = Null /\ op[a] = "connect" /\ \A b \in Actor \ {a} : op[b] # "connect"
  BY DEF Connect, Owned, Cleared, Alone, Reconnecting
<1>2. zkClusterStatus = "NO_QUORUM" /\ told = "NO_QUORUM"
  BY <1>1 DEF Follows, Absent, Told
<1>3. UNCHANGED <<zkClusterStatus, zkConnection, events, told>>
  BY DEF Connect
<1>4. \A s \in Session : events[s] = <<>> /\ op[s] \in {"idle", "open", "connect"}
  BY <1>1, NullAssumption DEF Follows, Past
<1>5. /\ \A s \in Session : s # a => op'[s] = op[s]
      /\ a # Client => op'[a] = "idle"
      /\ a = Client => a \notin Session
  BY ActorAssumption DEF Connect, Becomes, TypeOK, Actor
<1>6. \A s \in Session : events'[s] = <<>> /\ op'[s] \in {"idle", "open"}
  BY <1>1, <1>3, <1>4, <1>5 DEF Actor
<1>7. CASE UNCHANGED <<session, connection>>
  <2>1. Current' = Null
    BY <1>1, <1>3, <1>7 DEF Current
  <2>2. QED
    BY <1>2, <1>3, <1>6, <2>1 DEF Follows, Past, Present, Absent, Told
<1>8. CASE /\ zkConnection # Null /\ Unused # {}
           /\ session' = [session EXCEPT ![NewSession] = "connecting"]
           /\ connection' = [connection EXCEPT ![zkConnection] = NewSession]
  <2>1. PICK s \in Session : s = NewSession
    BY <1>8, NewSessionType DEF Unused
  <2>2. Current' = s /\ s # Null
    BY <1>3, <1>8, <2>1, NullAssumption DEF Current, TypeOK
  <2>3. session'[s] = "connecting"
    BY <1>8, <2>1 DEF TypeOK
  <2>4. op'[s] = "idle"
    <3>1. op[s] # "open"
      BY <1>1 DEF Owned, Alone, Reconnecting, Actor
    <3>2. QED
      BY <1>5, <1>6, <3>1
  <2>5. Reports(s)' /\ Ends(s)'
    BY <1>2, <1>3, <1>6, <2>3, <2>4 DEF Reports, Ends, LastStatus, StatusBefore
  <2>6. QED
    BY <1>2, <1>3, <1>6, <2>2, <2>4, <2>5 DEF Follows, Past, Present, Absent, Told
<1>9. QED
  BY <1>7, <1>8 DEF Connect

\* The queue of an event thread after an event is taken from it, or added.
LEMMA TailFacts ==
  ASSUME NEW q \in Seq(Event), q # <<>>, NEW n \in Nat, Len(q) = n + 1
  PROVE  /\ q[1] = Head(q) /\ Len(Tail(q)) = n
         /\ DOMAIN Tail(q) = 1..n /\ DOMAIN q = 1..(n + 1)
         /\ \A i \in 1..n : Tail(q)[i] = q[i + 1]
         /\ n # 0 => Tail(q) # <<>>
         /\ n = 0 => Tail(q) = <<>>
<1>1. q[1] = Head(q) /\ Len(Tail(q)) = n /\ DOMAIN q = 1..(n + 1) /\ Tail(q) \in Seq(Event)
  OBVIOUS
<1>2. DOMAIN Tail(q) = 1..n
  BY <1>1
<1>3. \A i \in 1..n : Tail(q)[i] = q[i + 1]
  OBVIOUS
<1>4. Tail(q) = <<>> <=> n = 0
  BY <1>1, EmptySeq
<1>5. QED
  BY <1>1, <1>2, <1>3, <1>4

LEMMA AppendFacts ==
  ASSUME NEW q \in Seq(Event), NEW e \in Event, NEW n \in Nat, Len(q) = n
  PROVE  /\ Len(Append(q, e)) = n + 1
         /\ DOMAIN Append(q, e) = 1..(n + 1) /\ DOMAIN q = 1..n
         /\ \A i \in 1..n : Append(q, e)[i] = q[i]
         /\ Append(q, e)[n + 1] = e /\ Append(q, e) # <<>>
<1>1. /\ Append(q, e) \in Seq(Event) /\ Len(Append(q, e)) = n + 1
      /\ \A i \in 1..n : Append(q, e)[i] = q[i]
      /\ Append(q, e)[n + 1] = e
  BY AppendProperties
<1>2. DOMAIN Append(q, e) = 1..(n + 1) /\ DOMAIN q = 1..n
  BY <1>1
<1>3. Append(q, e) # <<>>
  BY <1>1, EmptySeq
<1>4. QED
  BY <1>1, <1>2, <1>3

LEMMA StatusType ==
  ASSUME TypeOK, NEW s \in Session
  PROVE  LastStatus(s) \in ClusterStatus
BY DEF LastStatus, StatusBefore, StatusAfter, ClusterStatus, TypeOK

\* The event that is taken is counted in the status from then on, so that the status
\* after the last one stays what it was.
LEMMA ProcessPreservesFollows ==
  ASSUME TypeOK, Follows, NEW s \in Session, Process(s)
  PROVE  Follows'
<1>1. s = Current /\ s # Null /\ s \in Actor /\ op[s] = "idle" /\ zkConnection # Null
  BY NullAssumption DEF Process, Follows, Past, Actor, Current
<1>2. PICK e \in Event : e = Head(events[s])
  BY DEF Process, TypeOK
<1>3. PICK n \in Nat : Len(events[s]) = n + 1
  <2>1. events[s] \in Seq(Event) /\ events[s] # <<>>
    BY DEF Process, TypeOK
  <2>2. Len(events[s]) \in Nat /\ Len(events[s]) # 0
    BY <2>1
  <2>3. Len(events[s]) - 1 \in Nat /\ Len(events[s]) = (Len(events[s]) - 1) + 1
    BY <2>2
  <2>4. QED
    BY <2>3
<1>4. /\ events[s][1] = e
      /\ Len(events'[s]) = n /\ DOMAIN events'[s] = 1..n /\ DOMAIN events[s] = 1..(n + 1)
      /\ \A i \in 1..n : events'[s][i] = events[s][i + 1]
      /\ n # 0 => events'[s] # <<>>
      /\ n = 0 => events'[s] = <<>>
  <2>1. events[s] \in Seq(Event) /\ events[s] # <<>> /\ events'[s] = Tail(events[s])
    BY DEF Process, TypeOK
  <2>2. QED
    BY <1>2, <1>3, <2>1, TailFacts
<1>5. /\ op'[s] = OpAfter(e) /\ zkClusterStatus' = StatusAfter(e)
      /\ \A t \in Session \ {s} : op'[t] = op[t] /\ events'[t] = events[t]
      /\ UNCHANGED <<session, told>> /\ Current' = s
  BY <1>1, <1>2 DEF Process, Becomes, TypeOK, Actor, Current, sessionVars
<1>6. \A i \in 1..(n + 1) : StatusBefore(s, i)' = StatusBefore(s, i + 1)
  <2>1. StatusBefore(s, 1)' = StatusBefore(s, 2)
    BY <1>4, <1>5 DEF StatusBefore
  <2>2. ASSUME NEW i \in 1..n
        PROVE  StatusBefore(s, i + 1)' = StatusBefore(s, i + 2)
    <3>1. i + 1 # 1 /\ i + 2 # 1 /\ (i + 1) - 1 = i /\ (i + 2) - 1 = i + 1
      OBVIOUS
    <3>2. events'[s][i] = events[s][i + 1]
      BY <1>4
    <3>3. QED
      BY <3>1, <3>2 DEF StatusBefore
  <2>3. ASSUME NEW i \in 1..(n + 1)
        PROVE  StatusBefore(s, i)' = StatusBefore(s, i + 1)
    <3>1. CASE i = 1
      BY <2>1, <3>1
    <3>2. CASE i # 1
      <4>1. i - 1 \in 1..n /\ (i - 1) + 1 = i /\ (i - 1) + 2 = i + 1
        BY <3>2
      <4>2. StatusBefore(s, (i - 1) + 1)' = StatusBefore(s, (i - 1) + 2)
        BY <2>2, <4>1
      <4>3. QED
        BY <4>1, <4>2
    <3>3. QED
      BY <3>1, <3>2
  <2>4. QED
    BY <2>3
<1>7. LastStatus(s)' = LastStatus(s)
  <2>1. LastStatus(s)' = StatusBefore(s, n + 1)'
    BY <1>4 DEF LastStatus, StatusBefore
  <2>2. LastStatus(s) = StatusBefore(s, (n + 1) + 1)
    BY <1>3 DEF LastStatus
  <2>3. QED
    BY <1>6, <2>1, <2>2
<1>8. Past'
  BY <1>1, <1>5 DEF Follows, Past
<1>9. Reports(s) /\ Ends(s) /\ told = zkClusterStatus
  BY <1>1 DEF Follows, Present, Told
<1>10. \/ e = "SyncConnected" /\ OpAfter(e) = "onGetQuorum" /\ StatusAfter(e) = "QUORUM"
       \/ e = "Disconnected" /\ OpAfter(e) = "onLackOfQuorum" /\ StatusAfter(e) = "NO_QUORUM"
       \/ e = "Expired" /\ OpAfter(e) = "close" /\ StatusAfter(e) = "NO_QUORUM"
  BY DEF Event, OpAfter, StatusAfter
<1>11. Reports(s)'
  BY <1>5, <1>7, <1>9, <1>10 DEF Reports
<1>12. e = "Expired" => n = 0 /\ session[s] = "expired" /\ zkClusterStatus = "NO_QUORUM"
  <2>1. 1 \in DOMAIN events[s] /\ StatusBefore(s, 1) = zkClusterStatus
    BY <1>4 DEF StatusBefore
  <2>2. \A i \in DOMAIN events[s] : events[s][i] = "Expired" =>
          i = Len(events[s]) /\ session[s] = "expired" /\ StatusBefore(s, i) = "NO_QUORUM"
    BY <1>9 DEF Ends
  <2>3. ASSUME e = "Expired"
        PROVE  1 = Len(events[s]) /\ session[s] = "expired" /\ StatusBefore(s, 1) = "NO_QUORUM"
    BY <1>4, <2>1, <2>2, <2>3
  <2>4. 1 = n + 1 => n = 0
    OBVIOUS
  <2>5. QED
    BY <1>3, <2>1, <2>3, <2>4
<1>13. Ends(s)'
  <2>1. op'[s] \in {"onGetQuorum", "onLackOfQuorum", "close"}
    BY <1>5, <1>10
  <2>2. op'[s] \in {"close", "clear"} => events'[s] = <<>> /\ session'[s] \in {"expired", "closed"}
    BY <1>4, <1>5, <1>10, <1>12
  <2>3. ASSUME session'[s] \in {"expired", "closed"}, op'[s] \notin {"close", "clear"}
        PROVE  events'[s] # <<>> /\ events'[s][Len(events'[s])] = "Expired"
    <3>1. events[s][n + 1] = "Expired" /\ e # "Expired"
      BY <1>1, <1>3, <1>5, <1>9, <1>10, <2>3 DEF Ends
    <3>2. n # 0
      BY <1>4, <3>1
    <3>3. n \in 1..n
      BY <3>2
    <3>4. QED
      BY <1>4, <3>1, <3>2, <3>3
  <2>4. ASSUME NEW i \in 1..n, events'[s][i] = "Expired"
        PROVE  i = n /\ session'[s] = "expired" /\ StatusBefore(s, i)' = "NO_QUORUM"
    <3>1. i + 1 \in DOMAIN events[s] /\ events[s][i + 1] = "Expired"
      BY <1>4, <2>4
    <3>2. i + 1 = n + 1 /\ session[s] = "expired" /\ StatusBefore(s, i + 1) = "NO_QUORUM"
      BY <1>3, <1>9, <3>1 DEF Ends
    <3>3. QED
      BY <1>5, <1>6, <3>2
  <2>5. QED
    BY <1>4, <2>1, <2>2, <2>3, <2>4 DEF Ends
<1>14. Told'
  BY <1>1, <1>5, <1>9, <1>10, <1>12 DEF Told
<1>15. QED
  BY <1>1, <1>5, <1>8, <1>11, <1>13, <1>14 DEF Follows, Present, Absent

\* What happens to a session happens to the current one, and is reported last.
LEMMA SessionMovesPreservesFollows ==
  ASSUME TypeOK, Owned, ~ overlap, Follows, NEW s \in Session, NEW from, NEW to, NEW e,
         SessionMoves(s, from, to, e),
         \/ from \subseteq Live /\ to = "connected" /\ e = "SyncConnected"
         \/ from \subseteq Live /\ to = "disconnected" /\ e = "Disconnected"
         \/ from = {"disconnected"} /\ to = "expired" /\ e = "Expired"
  PROVE  Follows'
<1>1. session[s] \in Live /\ s = Current /\ s # Null
  BY NullAssumption DEF SessionMoves, Owned, SessionsOwned, Open, Current, Live
<1>2. PICK n \in Nat : Len(events[s]) = n
  BY DEF TypeOK
<1>3. /\ Len(events'[s]) = n + 1 /\ DOMAIN events'[s] = 1..(n + 1) /\ DOMAIN events[s] = 1..n
      /\ \A i \in 1..n : events'[s][i] = events[s][i]
      /\ events'[s][n + 1] = e /\ events'[s] # <<>>
  <2>1. events[s] \in Seq(Event) /\ e \in Event /\ events'[s] = Append(events[s], e)
    BY DEF SessionMoves, TypeOK, Event
  <2>2. QED
    BY <1>2, <2>1, AppendFacts
<1>4. /\ session'[s] = to
      /\ \A t \in Session \ {s} : events'[t] = events[t]
      /\ UNCHANGED <<zkClusterStatus, op, told>> /\ Current' = s
  BY <1>1 DEF SessionMoves, TypeOK, Current
<1>5. \A i \in 1..(n + 1) : StatusBefore(s, i)' = StatusBefore(s, i)
  <2>1. StatusBefore(s, 1)' = StatusBefore(s, 1)
    BY <1>4 DEF StatusBefore
  <2>2. ASSUME NEW i \in 1..(n + 1), i # 1
        PROVE  StatusBefore(s, i)' = StatusBefore(s, i)
    <3>1. i - 1 \in 1..n
      BY <2>2
    <3>2. events'[s][i - 1] = events[s][i - 1]
      BY <1>3, <3>1
    <3>3. QED
      BY <2>2, <3>2 DEF StatusBefore
  <2>3. QED
    BY <2>1, <2>2
<1>6. LastStatus(s)' = StatusAfter(e) /\ LastStatus(s) = StatusBefore(s, n + 1)
  BY <1>2, <1>3 DEF LastStatus, StatusBefore
<1>7. Reports(s) /\ Ends(s)
  BY <1>1 DEF Follows, Present
<1>8. Past'
  BY <1>1, <1>4 DEF Follows, Past
<1>9. Reports(s)'
  BY <1>4, <1>6, <1>7 DEF Reports, StatusAfter
<1>10. Ends(s)'
  <2>1. op[s] \notin {"close", "clear"} /\ session[s] \notin {"expired", "closed"}
    BY <1>1, <1>7 DEF Ends, Live
  <2>2. ASSUME e = "Expired"
        PROVE  session'[s] = "expired" /\ StatusBefore(s, n + 1)' = "NO_QUORUM"
    <3>1. session[s] = "disconnected" /\ to = "expired"
      BY <2>2 DEF SessionMoves
    <3>2. LastStatus(s) = "NO_QUORUM"
      BY <1>7, <3>1, StatusType DEF Reports, ClusterStatus
    <3>3. QED
      BY <1>4, <1>5, <1>6, <3>1, <3>2
  <2>3. session'[s] \in {"expired", "closed"} => e = "Expired"
    BY <1>4
  <2>4. \A i \in 1..(n + 1) : events'[s][i] = "Expired" => i = n + 1 /\ e = "Expired"
    BY <1>2, <1>3, <1>7, <2>1 DEF Ends
  <2>5. QED
    BY <1>3, <1>4, <1>7, <2>1, <2>2, <2>3, <2>4 DEF Ends
<1>11. QED
  BY <1>1, <1>4, <1>8, <1>9, <1>10 DEF Follows, Present, Absent, Told

\* Follows is preserved by every step, as long as the monitor is not stopped and no
\* two threads meet.
LEMMA NextPreservesFollows ==
  ASSUME TypeOK, IOwned, ~ overlap, NeverStopped, Follows, [Next]_vars, NeverStopped'
  PROVE  Follows'
<1>1. Owned /\ Created
  BY DEF IOwned
<1>2. Client \in Actor /\ \A s \in Session : s \in Actor /\ s # Client
  BY ActorAssumption DEF Actor
<1>3. CASE Start \/ Stop
  <2>1. \A s \in Session : op'[s] = op[s]
    BY <1>2, <1>3 DEF Start, Stop, Becomes, TypeOK
  <2>2. QED
    BY <1>3, <2>1, ElsewherePreservesFollows DEF Start, Stop, sessionVars
<1>4. ASSUME NEW n \in Node, \/ StartNode(n) \/ StopNode(n) \/ NodeStep(n)
                            \/ \E s \in Session : UpdateNode(s, n)
      PROVE  Follows'
  BY <1>4, ElsewherePreservesFollows DEF StartNode, StopNode, NodeStep, UpdateNode, Visit, sessionVars
<1>5. ASSUME NEW n \in Node, StartNodeRejected(n)
      PROVE  Follows'
  <2>1. \A s \in Session : op'[s] = op[s]
    BY <1>2, <1>5 DEF StartNodeRejected, Becomes, TypeOK
  <2>2. QED
    BY <1>5, <2>1, ElsewherePreservesFollows DEF StartNodeRejected, sessionVars
<1>6. ASSUME NEW a \in Actor, NEW l \in {"updateNodes", "startNodes", "stopNodes"}, LoopEnds(a, l)
      PROVE  Follows'
  <2>1. op' = [op EXCEPT ![a] = "idle"] /\ op[a] = l
        /\ UNCHANGED <<zkClusterStatus, zkConnection, connection, session, events, told>>
    BY <1>6 DEF LoopEnds, Becomes, sessionVars
  <2>2. CASE a = Client
    <3>1. \A s \in Session : op'[s] = op[s]
      BY <1>2, <2>1, <2>2 DEF TypeOK
    <3>2. QED
      BY <2>1, <3>1, ElsewherePreservesFollows
  <2>3. CASE a \in Session
    <3>1. a = Current /\ a # Null
      BY <2>1, <2>3, NullAssumption DEF Follows, Past
    <3>2. op[a] = "updateNodes" /\ told = zkClusterStatus
      BY <2>1, <3>1 DEF Follows, Present, Ends, Told
    <3>3. QED
      BY <2>1, <2>3, <3>2, ThreadPreservesFollows
  <2>4. QED
    BY <2>2, <2>3 DEF Actor
<1>7. ASSUME NEW s \in Session, QuorumCallback(s)
      PROVE  Follows'
  <2>1. s = Current /\ s # Null
    BY <1>7, NullAssumption DEF QuorumCallback, Follows, Past
  <2>2. told' = zkClusterStatus
    BY <1>7, <2>1 DEF QuorumCallback, Follows, Present, Reports
  <2>3. /\ UNCHANGED <<zkClusterStatus, zkConnection, connection, session, events>>
        /\ op[s] \in {"onGetQuorum", "onLackOfQuorum", "updateNodes"}
        /\ op' = [op EXCEPT ![s] = "idle"] \/ op' = [op EXCEPT ![s] = "updateNodes"]
    BY <1>7 DEF QuorumCallback, Becomes, sessionVars
  <2>4. QED
    BY <2>2, <2>3, ThreadPreservesFollows
<1>8. ASSUME NEW a \in Actor, CloseConnection(a) \/ ClearConnection(a)
      PROVE  Follows'
  <2>1. a \in Session
    BY <1>8 DEF CloseConnection, ClearConnection, Actor, NeverStopped
  <2>2. QED
    BY <1>8, <2>1, CloseConnectionPreservesFollows, ClearConnectionPreservesFollows
<1>9. ASSUME NEW s \in Session, SessionConnects(s) \/ SessionDisconnects(s) \/ SessionExpires(s)
      PROVE  Follows'
  <2>1. {"connecting", "disconnected"} \subseteq Live /\ {"connected"} \subseteq Live
    BY DEF Live
  <2>2. QED
    BY <1>1, <1>9, <2>1, SessionMovesPreservesFollows
    DEF SessionConnects, SessionDisconnects, SessionExpires
<1>10. CASE UNCHANGED vars
  BY <1>10, ElsewherePreservesFollows DEF vars, sessionVars
<1>11. ASSUME NEW a \in Actor, Advance(a)
       PROVE  Follows'
  BY <1>1, <1>6, <1>8, <1>11, OpenConnectionPreservesFollows, ConnectPreservesFollows DEF Advance
<1>12. QED
  BY <1>2, <1>3, <1>4, <1>5, <1>7, <1>9, <1>10, <1>11, ProcessPreservesFollows
  DEF Next, ClientThread, EventThread

\* Two threads that have met are remembered to have met.
LEMMA OverlapStays == [Next]_vars /\ ~ overlap' => ~ overlap
BY DEF Next, vars, ClientThread, EventThread, Advance, Start, Stop, CloseConnection, ClearConnection,
       OpenConnection, Connect, LoopEnds, Process, QuorumCallback, UpdateNode, StartNode, StopNode,
       StartNodeRejected, Visit, NodeStep, SessionConnects, SessionDisconnects, SessionExpires,
       SessionMoves, Overlaps

\* The invariant holds in every reachable state.
THEOREM IInvCorrect == Spec => []IInv
<1>1. Init => ClientStops /\ Follows
  <2> SUFFICES ASSUME Init PROVE ClientStops /\ Follows
    OBVIOUS
  <2>1. op[Client] = "idle" /\ \A s \in Session : events[s] = <<>> /\ op[s] = "idle"
    BY DEF Init, Actor
  <2>2. Current = Null
    BY DEF Init, Current
  <2>3. QED
    BY <2>1, <2>2 DEF Init, ClientStops, Follows, Past, Present, Absent, Told
<1>2. TypeOK /\ IOwned /\ (ClientStops /\ (~ overlap /\ NeverStopped => Follows)) /\ [Next]_vars
        => (ClientStops /\ (~ overlap /\ NeverStopped => Follows))'
  BY ClientStopsPreserved, NeverStoppedBefore, OverlapStays, NextPreservesFollows
<1>3. QED
  BY <1>1, <1>2, TypeCorrect, IOwnedCorrect, PTL DEF Spec, IInv

\* Until the monitor of one server or more is first stopped, once the events of its
\* session have been processed the cluster status is that of the session, and the
\* listener knows it, however often the session has been replaced.
THEOREM QuorumFollowsSessionCorrect == ASSUME Node # {} PROVE Spec => []QuorumFollowsSession
<1>1. TypeOK /\ IInv => QuorumFollowsSession
  <2> SUFFICES ASSUME TypeOK, IInv, Quiet, ~ overlap, zkConnection # Null,
                      connection[zkConnection] # Null, \A n \in Node : executor[n] = "open"
               PROVE  /\ zkClusterStatus = "QUORUM" <=> session[Current] = "connected"
                      /\ told = zkClusterStatus
    BY DEF QuorumFollowsSession, Current
  <2>1. NeverStopped
    BY DEF NeverStopped, Quiet, Actor
  <2>2. Current # Null /\ Current \in Session
    BY CurrentType DEF Current
  <2>3. events[Current] = <<>> /\ op[Current] = "idle"
    BY <2>2 DEF Quiet, Actor
  <2>4. QED
    BY <2>1, <2>2, <2>3 DEF IInv, Follows, Present, Reports, LastStatus, StatusBefore, Told
<1>2. QED
  BY <1>1, TypeCorrect, IInvCorrect, PTL

=============================================================================
