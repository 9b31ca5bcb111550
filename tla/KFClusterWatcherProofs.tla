------------------------ MODULE KFClusterWatcherProofs ------------------------
(***************************************************************************)
(* KFClusterWatcher for any number of sessions, of queued events and of    *)
(* threads that set watches: types, and who owns an open session.          *)
(***************************************************************************)
EXTENDS KFClusterWatcher, TLAPS

\* What process does after an event is one of the operations of a thread.
LEMMA OpAfterType == \A e \in Event : OpAfter(e) \in Op
BY DEF OpAfter, Event, Op, Reconnecting

LEMMA AfterCloseType == \A a : AfterClose(a) \in Op
BY DEF AfterClose, Op, Reconnecting

\* A thread that goes on to an operation leaves the others where they are.
LEMMA BecomesType ==
  ASSUME TypeOK, NEW a \in Actor, NEW x \in Op, Becomes(a, x)
  PROVE  op' \in [Actor -> Op] /\ overlap' \in BOOLEAN
BY DEF TypeOK, Becomes

\* There is a new session where the model says that one is left.
LEMMA NewSessionType == Unused # {} => NewSession \in Unused
BY DEF NewSession

\* Every variable of the watcher keeps its type.
THEOREM TypeCorrect == Spec => []TypeOK
<1>1. Init => TypeOK
  <2> SUFFICES ASSUME Init PROVE TypeOK
    OBVIOUS
  <2>1. events \in [Session -> Seq(Event)]
    BY DEF Init
  <2>2. op \in [Actor -> Op] /\ opened \in [Actor -> Session \cup {Null}]
    BY DEF Init, Op
  <2>3. session \in [Session -> {"unused", "expired", "closed"} \cup Live]
    BY DEF Init
  <2>4. QED
    BY <2>1, <2>2, <2>3 DEF Init, TypeOK
<1>2. TypeOK /\ [Next]_vars => TypeOK'
  <2> USE DEF TypeOK
  <2>1. ASSUME TypeOK, Start
        PROVE  TypeOK'
    <3>1. Client \in Actor /\ "connect" \in Op
      BY DEF Actor, Op, Reconnecting
    <3>2. QED
      BY <2>1, <3>1, BecomesType DEF Start
  <2>2. ASSUME TypeOK, Stop
        PROVE  TypeOK'
    <3>1. Client \in Actor /\ "close" \in Op
      BY DEF Actor, Op, Reconnecting
    <3>2. QED
      BY <2>2, <3>1, BecomesType DEF Stop
  <2>3. ASSUME TypeOK, NEW a \in Actor, CloseClient(a)
        PROVE  TypeOK'
    <3>1. "clear" \in Op
      BY DEF Op, Reconnecting
    <3>2. op' \in [Actor -> Op] /\ overlap' \in BOOLEAN
      BY <2>3, <3>1, AfterCloseType, BecomesType DEF CloseClient
    <3>3. QED
      BY <2>3, <3>2 DEF CloseClient
  <2>4. ASSUME TypeOK, NEW a \in Actor, ClearClient(a)
        PROVE  TypeOK'
    BY <2>4, AfterCloseType, BecomesType DEF ClearClient
  <2>5. ASSUME TypeOK, NEW a \in Actor, ConnectSession(a)
        PROVE  TypeOK'
    <3>1. {"assign", "idle"} \subseteq Op
      BY DEF Op, Reconnecting
    <3>2. op' \in [Actor -> Op] /\ overlap' \in BOOLEAN
      BY <2>5, <3>1, BecomesType DEF ConnectSession
    <3>3. session' \in [Session -> {"unused", "expired", "closed"} \cup Live]
      BY <2>5 DEF ConnectSession, Live
    <3>4. opened' \in [Actor -> Session \cup {Null}]
      BY <2>5, NewSessionType DEF ConnectSession, Unused
    <3>5. QED
      BY <2>5, <3>2, <3>3, <3>4 DEF ConnectSession
  <2>6. ASSUME TypeOK, NEW a \in Actor, AssignClient(a)
        PROVE  TypeOK'
    <3>1. "setup" \in Op
      BY DEF Op
    <3>2. QED
      BY <2>6, <3>1, BecomesType DEF AssignClient
  <2>7. ASSUME TypeOK, NEW a \in Actor, setupWatcherAsync(a)
        PROVE  TypeOK'
    <3>1. {"update", "idle"} \subseteq Op
      BY DEF Op
    <3>2. op' \in [Actor -> Op] /\ overlap' \in BOOLEAN
      BY <2>7, <3>1, BecomesType DEF setupWatcherAsync
    <3>3. QED
      BY <2>7, <3>2 DEF setupWatcherAsync
  <2>8. ASSUME TypeOK, NEW a \in Actor, updateBrokerStatus(a)
        PROVE  TypeOK'
    <3>1. "idle" \in Op
      BY DEF Op
    <3>2. QED
      BY <2>8, <3>1, BecomesType DEF updateBrokerStatus
  <2>9. ASSUME TypeOK, getChildren
        PROVE  TypeOK'
    BY <2>9 DEF getChildren
  <2>10. ASSUME TypeOK, NEW s \in Session, Process(s)
         PROVE  TypeOK'
    <3>1. s \in Actor /\ events[s] \in Seq(Event) /\ events[s] # <<>>
      BY <2>10 DEF Process, Actor
    <3>2. Head(events[s]) \in Event /\ Tail(events[s]) \in Seq(Event)
      BY <3>1
    <3>3. op' \in [Actor -> Op] /\ overlap' \in BOOLEAN
      BY <2>10, <3>1, <3>2, OpAfterType, BecomesType DEF Process
    <3>4. QED
      BY <2>10, <3>2, <3>3 DEF Process
  <2>11. ASSUME TypeOK, NEW s \in Session, NEW to \in Live \cup {"expired"}, NEW es \in Seq(Event),
                SessionMoves(s, to, es), watch' \in SUBSET Session
         PROVE  TypeOK'
    <3>1. events[s] \o es \in Seq(Event)
      BY <2>11
    <3>2. QED
      BY <2>11, <3>1 DEF SessionMoves
  <2>12. ASSUME TypeOK, NEW s \in Session,
                SessionConnects(s) \/ SessionDisconnects(s) \/ SessionExpires(s)
         PROVE  TypeOK'
    <3>1. /\ <<"SyncConnected", "NodeChildrenChanged">> \in Seq(Event)
          /\ <<"SyncConnected">> \in Seq(Event)
          /\ <<"Disconnected">> \in Seq(Event)
          /\ <<"Expired">> \in Seq(Event)
      BY DEF Event
    <3>2. /\ "connected" \in Live \cup {"expired"}
          /\ "disconnected" \in Live \cup {"expired"}
          /\ "expired" \in Live \cup {"expired"}
      BY DEF Live
    <3>3. watch' \in SUBSET Session
      BY <2>12 DEF SessionConnects, SessionDisconnects, SessionExpires
    <3>4. CASE SessionConnects(s)
      BY <2>11, <2>12, <3>1, <3>2, <3>3, <3>4 DEF SessionConnects
    <3>5. CASE SessionDisconnects(s)
      BY <2>11, <2>12, <3>1, <3>2, <3>3, <3>5 DEF SessionDisconnects
    <3>6. CASE SessionExpires(s)
      BY <2>11, <2>12, <3>1, <3>2, <3>3, <3>6 DEF SessionExpires
    <3>7. QED
      BY <2>12, <3>4, <3>5, <3>6
  <2>13. ASSUME TypeOK, BrokersChange
         PROVE  TypeOK'
    <3>1. \A s \in Session : Append(events[s], "NodeChildrenChanged") \in Seq(Event)
      BY <2>13 DEF Event
    <3>2. QED
      BY <2>13, <3>1 DEF BrokersChange
  <2>14. ASSUME TypeOK, UNCHANGED vars
         PROVE  TypeOK'
    BY <2>14 DEF vars
  <2>15. Client \in Actor /\ \A s \in Session : s \in Actor
    BY DEF Actor
  <2>16. QED
    BY <2>1, <2>2, <2>3, <2>4, <2>5, <2>6, <2>7, <2>8, <2>9, <2>10, <2>12, <2>13, <2>14,
       <2>15 DEF Next, EventThread, Advance
<1>3. QED
  BY <1>1, <1>2, PTL DEF Spec

-----------------------------------------------------------------------------
(* The inductive invariant *)

\* At most one thread is opening or closing the connection.
Alone == \A a, b \in Actor : a # b => ~ ({op[a], op[b]} \subseteq Reconnecting)

\* A thread has a session of its own exactly from connect to the assignment.
Assigning == \A a \in Actor : op[a] = "assign" <=> opened[a] # Null

\* A thread that is about to clear the field has closed what it points to, and one
\* that connects has found it cleared.
Cleared ==
  \A a \in Actor :
    /\ op[a] = "clear" => zkClient = Null \/ session[zkClient] = "closed"
    /\ op[a] \in {"connect", "assign"} => zkClient = Null

Owned == Alone /\ Cleared /\ SessionsOwned

\* SessionsOwned says nothing of what a thread on its way will do to the field, and
\* so is not inductive: one that assigns a session could overwrite another that is
\* open.  Cleared excludes that, as long as no other thread is on its way.
IInv == Assigning /\ (~ overlap => Owned)

\* While threads have never met, the one that goes on is the only one that opens
\* or closes the connection.
LEMMA BecomesAlone ==
  ASSUME TypeOK, NEW a \in Actor, NEW x, Becomes(a, x), ~ overlap', Alone
  PROVE  /\ ~ overlap
         /\ Alone'
         /\ x \in Reconnecting => \A b \in Actor \ {a} : op[b] \notin Reconnecting
         /\ op'[a] = x
         /\ \A b \in Actor \ {a} : op'[b] = op[b]
BY DEF TypeOK, Becomes, Alone

\* A thread that goes on without touching the field, a session or its own one,
\* other than to the middle of a reconnection, leaves all sessions owned.
LEMMA QuietMovePreservesIInv ==
  ASSUME TypeOK, IInv, NEW a \in Actor,
         NEW x \in Op \ {"clear", "connect", "assign"}, op[a] # "assign",
         Becomes(a, x), UNCHANGED <<zkClient, session, opened>>
  PROVE  IInv'
<1>1. op' = [op EXCEPT ![a] = x]
  BY DEF Becomes
<1>2. Assigning'
  BY <1>1 DEF IInv, Assigning, TypeOK
<1>3. ASSUME ~ overlap' PROVE Owned'
  <2>1. Owned
    BY <1>3 DEF IInv, Becomes
  <2>2. Alone' /\ op'[a] = x /\ \A b \in Actor \ {a} : op'[b] = op[b]
    BY <1>3, <2>1, BecomesAlone DEF Owned
  <2>3. Cleared'
    BY <2>1, <2>2 DEF Owned, Cleared
  <2>4. SessionsOwned'
    <3>1. \A b \in Actor : op[b] = "assign" => op'[b] = "assign"
      BY <2>2
    <3>2. ~ overlap
      BY <1>3 DEF Becomes
    <3>3. QED
      BY <2>1, <3>1, <3>2 DEF Owned, SessionsOwned, Open
  <2>5. QED
    BY <2>2, <2>3, <2>4 DEF Owned
<1>4. QED
  BY <1>2, <1>3 DEF IInv

\* What happens to a session opens none, and none comes back that was closed.
LEMMA SessionStepPreservesIInv ==
  ASSUME TypeOK, IInv, UNCHANGED <<zkClient, op, opened, overlap>>,
         \A s \in Session : /\ Open(s)' => Open(s)
                            /\ session[s] = "closed" => session'[s] = "closed"
  PROVE  IInv'
<1>1. Assigning'
  BY DEF IInv, Assigning
<1>2. ASSUME ~ overlap' PROVE Owned'
  <2>1. Owned
    BY <1>2 DEF IInv
  <2>2. Alone' /\ Cleared'
    BY <2>1 DEF Owned, Alone, Cleared, TypeOK
  <2>3. SessionsOwned'
    BY <1>2, <2>1 DEF Owned, SessionsOwned
  <2>4. QED
    BY <2>2, <2>3 DEF Owned
<1>3. QED
  BY <1>1, <1>2 DEF IInv

LEMMA CloseClientPreservesIInv ==
  ASSUME TypeOK, IInv, NEW a \in Actor, CloseClient(a)
  PROVE  IInv'
<1>1. PICK x \in {"clear", AfterClose(a)} :
        Becomes(a, x) /\ (x = "clear" <=> zkClient # Null)
  BY DEF CloseClient, AfterClose
<1>2. op' = [op EXCEPT ![a] = x] /\ op[a] = "close" /\ x # "assign" /\ UNCHANGED <<zkClient, opened>>
  BY <1>1 DEF Becomes, CloseClient, AfterClose
<1>3. Assigning'
  BY <1>2 DEF IInv, Assigning, TypeOK
<1>4. ASSUME ~ overlap' PROVE Owned'
  <2>1. Owned
    BY <1>1, <1>4 DEF IInv, Becomes
  <2>2. Alone' /\ op'[a] = x /\ \A b \in Actor \ {a} : op'[b] = op[b]
    BY <1>1, <1>4, <2>1, BecomesAlone DEF Owned
  <2>3. \A b \in Actor \ {a} : op[b] \notin Reconnecting
    BY <1>2, <2>1 DEF Owned, Alone, Reconnecting
  <2>4. zkClient # Null => zkClient \in Session /\ session' = [session EXCEPT ![zkClient] = "closed"]
    BY DEF CloseClient, TypeOK
  <2>5. zkClient = Null => session' = session
    BY DEF CloseClient
  <2>6. Cleared'
    BY <1>1, <1>2, <2>2, <2>3, <2>4 DEF Cleared, TypeOK, Reconnecting
  <2>7. SessionsOwned'
    <3>1. \A s \in Session : Open(s)' => Open(s)
      BY <2>4, <2>5 DEF Open, TypeOK, Live
    <3>2. \A b \in Actor : op[b] = "assign" => op'[b] = "assign"
      BY <1>2, <2>2
    <3>3. ~ overlap
      BY <1>1, <1>4 DEF Becomes
    <3>4. QED
      BY <1>2, <2>1, <3>1, <3>2, <3>3 DEF Owned, SessionsOwned
  <2>8. QED
    BY <2>2, <2>6, <2>7 DEF Owned
<1>5. QED
  BY <1>3, <1>4 DEF IInv

LEMMA ClearClientPreservesIInv ==
  ASSUME TypeOK, IInv, NEW a \in Actor, ClearClient(a)
  PROVE  IInv'
<1>1. /\ Becomes(a, AfterClose(a)) /\ op' = [op EXCEPT ![a] = AfterClose(a)]
      /\ op[a] = "clear" /\ AfterClose(a) \notin {"assign", "clear"}
      /\ zkClient' = Null /\ UNCHANGED <<session, opened>>
  BY DEF Becomes, ClearClient, AfterClose
<1>2. Assigning'
  BY <1>1 DEF IInv, Assigning, TypeOK
<1>3. ASSUME ~ overlap' PROVE Owned'
  <2>1. Owned /\ ~ overlap
    BY <1>1, <1>3 DEF IInv, Becomes
  <2>2. Alone' /\ op'[a] = AfterClose(a) /\ \A b \in Actor \ {a} : op'[b] = op[b]
    BY <1>1, <1>3, <2>1, BecomesAlone DEF Owned
  <2>3. Cleared'
    BY <1>1 DEF Cleared
  <2>4. \A s \in Session : Open(s) => zkClient # s
    BY <1>1, <2>1, NullAssumption DEF Owned, Cleared, Open, Live
  <2>5. SessionsOwned'
    BY <1>1, <2>1, <2>2, <2>4 DEF Owned, SessionsOwned, Open
  <2>6. QED
    BY <2>2, <2>3, <2>5 DEF Owned
<1>4. QED
  BY <1>2, <1>3 DEF IInv

LEMMA ConnectSessionPreservesIInv ==
  ASSUME TypeOK, IInv, NEW a \in Actor, ConnectSession(a)
  PROVE  IInv'
<1>1. CASE Becomes(a, "idle") /\ UNCHANGED <<session, opened>>
  <2>1. UNCHANGED zkClient /\ op[a] # "assign" /\ "idle" \in Op \ {"clear", "connect", "assign"}
    BY DEF ConnectSession, Op
  <2>2. QED
    BY <1>1, <2>1, QuietMovePreservesIInv
<1>2. CASE /\ Unused # {} /\ Becomes(a, "assign")
           /\ session' = [session EXCEPT ![NewSession] = "connecting"]
           /\ opened' = [opened EXCEPT ![a] = NewSession]
  <2>1. /\ op' = [op EXCEPT ![a] = "assign"] /\ op[a] = "connect" /\ UNCHANGED zkClient
        /\ NewSession \in Session /\ session[NewSession] = "unused"
    BY <1>2, NewSessionType DEF Becomes, ConnectSession, Unused
  <2>2. Assigning'
    BY <1>2, <2>1, NullAssumption DEF IInv, Assigning, TypeOK
  <2>3. ASSUME ~ overlap' PROVE Owned'
    <3>1. Owned
      BY <1>2, <2>3 DEF IInv, Becomes
    <3>2. Alone' /\ op'[a] = "assign" /\ \A b \in Actor \ {a} : op'[b] = op[b]
      BY <1>2, <2>3, <3>1, BecomesAlone DEF Owned
    <3>3. \A b \in Actor \ {a} : op[b] \notin Reconnecting
      BY <2>1, <3>1 DEF Owned, Alone, Reconnecting
    <3>4. zkClient = Null
      BY <2>1, <3>1 DEF Owned, Cleared
    <3>5. Cleared'
      BY <2>1, <3>4 DEF Cleared
    <3>6. SessionsOwned'
      <4>1. \A s \in Session : ~ Open(s)
        BY <1>2, <2>1, <2>3, <3>1, <3>3, <3>4, NullAssumption
        DEF Owned, SessionsOwned, Becomes, Reconnecting
      <4>2. \A s \in Session : Open(s)' => s = NewSession
        BY <1>2, <2>1, <4>1 DEF Open, TypeOK
      <4>3. opened'[a] = NewSession
        BY <1>2 DEF TypeOK
      <4>4. QED
        BY <3>2, <4>2, <4>3 DEF SessionsOwned
    <3>7. QED
      BY <3>2, <3>5, <3>6 DEF Owned
  <2>4. QED
    BY <2>2, <2>3 DEF IInv
<1>3. QED
  BY <1>1, <1>2 DEF ConnectSession

LEMMA AssignClientPreservesIInv ==
  ASSUME TypeOK, IInv, NEW a \in Actor, AssignClient(a)
  PROVE  IInv'
<1>1. /\ Becomes(a, "setup") /\ op' = [op EXCEPT ![a] = "setup"] /\ op[a] = "assign"
      /\ zkClient' = opened[a] /\ opened' = [opened EXCEPT ![a] = Null] /\ UNCHANGED session
  BY DEF Becomes, AssignClient
<1>2. Assigning'
  BY <1>1 DEF IInv, Assigning, TypeOK
<1>3. ASSUME ~ overlap' PROVE Owned'
  <2>1. Owned /\ ~ overlap
    BY <1>1, <1>3 DEF IInv, Becomes
  <2>2. Alone' /\ op'[a] = "setup" /\ \A b \in Actor \ {a} : op'[b] = op[b]
    BY <1>1, <1>3, <2>1, BecomesAlone DEF Owned
  <2>3. \A b \in Actor \ {a} : op[b] \notin Reconnecting
    BY <1>1, <2>1 DEF Owned, Alone, Reconnecting
  <2>4. Cleared'
    BY <2>2, <2>3 DEF Cleared, Reconnecting
  <2>5. \A s \in Session : Open(s) => opened[a] = s
    BY <1>1, <2>1, <2>3, NullAssumption DEF Owned, Cleared, SessionsOwned, Reconnecting
  <2>6. SessionsOwned'
    BY <1>1, <2>5 DEF SessionsOwned, Open
  <2>7. QED
    BY <2>2, <2>4, <2>6 DEF Owned
<1>4. QED
  BY <1>2, <1>3 DEF IInv

LEMMA StartPreservesIInv ==
  ASSUME TypeOK, IInv, Start
  PROVE  IInv'
<1>1. /\ Client \in Actor /\ Becomes(Client, "connect") /\ op' = [op EXCEPT ![Client] = "connect"]
      /\ op[Client] = "idle" /\ zkClient = Null /\ UNCHANGED <<zkClient, session, opened>>
  BY DEF Becomes, Start, Actor
<1>2. Assigning'
  BY <1>1 DEF IInv, Assigning, TypeOK
<1>3. ASSUME ~ overlap' PROVE Owned'
  <2>1. Owned
    BY <1>1, <1>3 DEF IInv, Becomes
  <2>2. Alone' /\ op'[Client] = "connect" /\ \A b \in Actor \ {Client} : op'[b] = op[b]
    BY <1>1, <1>3, <2>1, BecomesAlone DEF Owned
  <2>3. Cleared'
    BY <1>1 DEF Cleared
  <2>4. SessionsOwned'
    <3>1. \A b \in Actor : op[b] = "assign" => op'[b] = "assign"
      BY <1>1, <2>2
    <3>2. ~ overlap
      BY <1>1, <1>3 DEF Becomes
    <3>3. QED
      BY <1>1, <2>1, <3>1, <3>2 DEF Owned, SessionsOwned, Open
  <2>5. QED
    BY <2>2, <2>3, <2>4 DEF Owned
<1>4. QED
  BY <1>2, <1>3 DEF IInv

\* The threads of an event, the client and the ensemble all preserve it.
THEOREM IInvCorrect == Spec => []IInv
<1>1. Init => IInv
  <2> SUFFICES ASSUME Init PROVE IInv
    OBVIOUS
  <2>1. Assigning
    BY DEF Init, Assigning
  <2>2. Alone /\ Cleared
    BY DEF Init, Alone, Cleared, Reconnecting
  <2>3. SessionsOwned
    BY DEF Init, SessionsOwned, Open, Live
  <2>4. QED
    BY <2>1, <2>2, <2>3 DEF IInv, Owned
<1>2. TypeOK /\ IInv /\ [Next]_vars => IInv'
  <2> SUFFICES ASSUME TypeOK, IInv, [Next]_vars PROVE IInv'
    OBVIOUS
  <2>1. Client \in Actor /\ \A s \in Session : s \in Actor
    BY DEF Actor
  <2>2. {"idle", "close", "update", "rewatch"} \subseteq Op \ {"clear", "connect", "assign"}
    BY DEF Op, Reconnecting
  <2>3. CASE Stop
    <3>1. op[Client] # "assign" /\ Becomes(Client, "close") /\ UNCHANGED <<zkClient, session, opened>>
      BY <2>3 DEF Stop
    <3>2. QED
      BY <2>1, <2>2, <3>1, QuietMovePreservesIInv
  <2>4. ASSUME NEW a \in Actor, setupWatcherAsync(a)
        PROVE  IInv'
    <3>1. PICK x \in {"idle", "update"} : Becomes(a, x)
      BY <2>4 DEF setupWatcherAsync
    <3>2. op[a] # "assign" /\ UNCHANGED <<zkClient, session, opened>>
      BY <2>4 DEF setupWatcherAsync
    <3>3. QED
      BY <2>2, <3>1, <3>2, QuietMovePreservesIInv
  <2>5. ASSUME NEW a \in Actor, updateBrokerStatus(a)
        PROVE  IInv'
    <3>1. op[a] # "assign" /\ Becomes(a, "idle") /\ UNCHANGED <<zkClient, session, opened>>
      BY <2>5 DEF updateBrokerStatus
    <3>2. QED
      BY <2>2, <3>1, QuietMovePreservesIInv
  <2>6. ASSUME NEW s \in Session, Process(s)
        PROVE  IInv'
    <3>1. CASE zkClient = Null
      <4>1. UNCHANGED <<zkClient, op, opened, overlap, session>>
        BY <2>6, <3>1 DEF Process
      <4>2. QED
        BY <4>1, SessionStepPreservesIInv DEF Open
    <3>2. CASE zkClient # Null
      <4>1. Head(events[s]) \in Event
        BY <2>6 DEF Process, TypeOK
      <4>2. OpAfter(Head(events[s])) \in {"rewatch", "close", "update"}
        BY <4>1 DEF OpAfter, Event
      <4>3. /\ op[s] # "assign" /\ Becomes(s, OpAfter(Head(events[s])))
            /\ UNCHANGED <<zkClient, session, opened>>
        BY <2>6, <3>2 DEF Process
      <4>4. QED
        BY <2>1, <2>2, <4>2, <4>3, QuietMovePreservesIInv
    <3>3. QED
      BY <3>1, <3>2
  <2>7. CASE getChildren
    BY <2>7, SessionStepPreservesIInv DEF getChildren, Open
  <2>8. CASE BrokersChange
    BY <2>8, SessionStepPreservesIInv DEF BrokersChange, Open
  <2>9. ASSUME NEW s \in Session, SessionConnects(s) \/ SessionDisconnects(s) \/ SessionExpires(s)
        PROVE  IInv'
    <3>1. /\ UNCHANGED <<zkClient, op, opened, overlap>>
          /\ session[s] \in Live
          /\ \E to \in {"connected", "disconnected", "expired"} :
               session' = [session EXCEPT ![s] = to]
      BY <2>9 DEF SessionConnects, SessionDisconnects, SessionExpires, SessionMoves, Live
    <3>2. \A t \in Session : /\ Open(t)' => Open(t)
                             /\ session[t] = "closed" => session'[t] = "closed"
      BY <3>1 DEF TypeOK, Open, Live
    <3>3. QED
      BY <3>1, <3>2, SessionStepPreservesIInv
  <2>10. CASE UNCHANGED vars
    BY <2>10, SessionStepPreservesIInv DEF vars, Open
  <2>11. ASSUME NEW a \in Actor, Advance(a)
         PROVE  IInv'
    BY <2>4, <2>5, <2>11, CloseClientPreservesIInv, ClearClientPreservesIInv,
       ConnectSessionPreservesIInv, AssignClientPreservesIInv DEF Advance
  <2>12. QED
    BY <2>1, <2>3, <2>6, <2>7, <2>8, <2>9, <2>10, <2>11, StartPreservesIInv
    DEF Next, EventThread
<1>3. QED
  BY <1>1, <1>2, TypeCorrect, PTL DEF Spec

\* Unless two threads have reconnected at once, every open session of the Kafka
\* monitor is the one zkClient points to, or is about to be.
THEOREM SessionsOwnedCorrect == Spec => []SessionsOwned
<1>1. IInv => SessionsOwned
  BY DEF IInv, Owned, SessionsOwned
<1>2. QED
  BY <1>1, IInvCorrect, PTL

\* So there is never more than one of them: restarts do not pile up sessions.
OneOpenSession == ~ overlap => \A s, t \in Session : Open(s) /\ Open(t) => s = t

THEOREM OneOpenSessionCorrect == Spec => []OneOpenSession
<1>1. IInv => OneOpenSession
  BY NullAssumption DEF IInv, Owned, Alone, Cleared, SessionsOwned, OneOpenSession, Reconnecting
<1>2. QED
  BY <1>1, IInvCorrect, PTL

=============================================================================
