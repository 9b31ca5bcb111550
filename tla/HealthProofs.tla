----------------------------- MODULE HealthProofs -----------------------------
(***************************************************************************)
(* KFHealth for any number of brokers, and ZKHealth for any number of      *)
(* nodes: types, and that a health which getHealth returns has been true   *)
(* at some instant of the call (AnswerWasTrue of HealthCall).  The two     *)
(* monitors have only that call in common; what is named with ZK is of     *)
(* Zookeeper.                                                              *)
(***************************************************************************)
EXTENDS KFHealth, TLAPS

CONSTANT Node

VARIABLES zkConnection, zkNodeStatus, zkClusterStatus, zkNodes

ZK == INSTANCE ZKHealth

-----------------------------------------------------------------------------
(* The Kafka monitor *)

\* HealthOf is decided by "all DOWN" and "all UP", which exclude each other
\* because there is a broker.
LEMMA HealthFacts ==
  ASSUME NEW st
  PROVE  /\ HealthOf(st) \in ClusterStatus
         /\ HealthOf(st) = "DOWN" <=> \A b \in Broker : st[b] = "DOWN"
         /\ HealthOf(st) = "OK" <=> \A b \in Broker : st[b] = "UP"
<1>1. PICK b \in Broker : TRUE
  BY BrokerAssumption
<1>2. ~ ((\A x \in Broker : st[x] = "DOWN") /\ (\A x \in Broker : st[x] = "UP"))
  BY <1>1
<1>3. QED
  BY <1>2 DEF HealthOf, ClusterStatus

\* What stays as it is outside the call and the statuses.
Elsewhere == Start \/ RestartCloses \/ RestartOpens \/ closeConnection
               \/ (\E b \in Broker : stopMonitoring(b))

\* Every variable keeps its type.
THEOREM TypeCorrect == Spec => []TypeOK
<1>1. Init => TypeOK
  BY AttainableAssumption DEF Init, TypeOK, BrokerStatus, ClusterStatus
<1>2. TypeOK /\ [Next]_vars => TypeOK'
  <2>1. ASSUME TypeOK, getHealth
        PROVE  TypeOK'
    BY <2>1, HealthFacts DEF getHealth, TypeOK, monitorVars
  <2>2. ASSUME TypeOK, NEW b \in Broker, getStatus(b)
        PROVE  TypeOK'
    BY <2>2 DEF getStatus, Count, TypeOK, monitorVars
  <2>3. ASSUME TypeOK, getNumberOfKafkaBrokersWarning
        PROVE  TypeOK'
    BY <2>3 DEF getNumberOfKafkaBrokersWarning, TypeOK, monitorVars
  <2>4. ASSUME TypeOK, Return
        PROVE  TypeOK'
    <3>1. Verdict(down, warning) \in ClusterStatus
      BY DEF Verdict, ClusterStatus
    <3>2. QED
      BY <2>4, <3>1 DEF Return, TypeOK, monitorVars
  <2>5. ASSUME TypeOK, NEW b \in Broker, StatusChanges(b)
        PROVE  TypeOK'
    BY <2>5, HealthFacts, AttainableAssumption
       DEF StatusChanges, TypeOK, BrokerStatus, monitorVars, callVars
  <2>6. ASSUME TypeOK, Elsewhere
        PROVE  TypeOK'
    BY <2>6 DEF Elsewhere, Start, RestartCloses, RestartOpens, closeConnection,
                stopMonitoring, TypeOK, callVars
  <2>7. ASSUME TypeOK, UNCHANGED vars
        PROVE  TypeOK'
    BY <2>7 DEF TypeOK, vars, monitorVars, callVars
  <2>8. QED
    BY <2>1, <2>2, <2>3, <2>4, <2>5, <2>6, <2>7 DEF Next, Elsewhere
<1>3. QED
  BY <1>1, <1>2, PTL DEF Spec

-----------------------------------------------------------------------------
(* The inductive invariant *)

\* What the first pass has not counted is not DOWN, and what neither pass has
\* counted is UP, now and until something worsens.
NotCounted ==
  /\ pc = "counting down" =>
       /\ warning = {}
       /\ \A b \in Broker \ (down \cup todo) : status[b] # "DOWN"
  /\ pc = "counting warning" =>
       /\ \A b \in Broker \ down : status[b] # "DOWN"
       /\ \A b \in Broker \ (down \cup warning \cup todo) : status[b] = "UP"

\* A cluster that was never DOWN has a broker that is not and was not counted so.
NeverDown ==
  "DOWN" \notin seen => \E b \in Broker \ down : status[b] # "DOWN"

\* A cluster that was never WARNING has been DOWN, with every broker counted so,
\* or OK, with none counted, or has one broker and went from DOWN to OK.
AllDown ==
  /\ \A b \in Broker : status[b] = "DOWN"
  /\ warning = {}
  /\ pc = "counting down" => down = Broker \ todo
  /\ pc = "counting warning" => down = Broker

AllUp ==
  /\ \A b \in Broker : status[b] = "UP"
  /\ warning = {}
  /\ down = {} \/ \A b, c \in Broker : b = c

NeverWarning == "WARNING" \notin seen => AllDown \/ AllUp

CallInv ==
  pc # "idle" /\ ~ disturbed =>
    /\ HealthOf(status) \in seen
    /\ NotCounted
    /\ NeverDown
    /\ NeverWarning

IInv == TypeOK /\ AnswerWasTrue /\ CallInv

\* The call begins with one instant seen, and nothing read.
LEMMA BeginKeepsIInv == ASSUME IInv, getHealth PROVE AnswerWasTrue' /\ CallInv'
<1>1. AnswerWasTrue'
  BY DEF getHealth, AnswerWasTrue, NoHealth, ClusterStatus, IInv, TypeOK
<1>2. CASE zkClient = "null"
  BY <1>1, <1>2 DEF getHealth, CallInv, IInv
<1>3. CASE zkClient # "null"
  <2>1. HealthOf(status)' \in seen'
    BY DEF getHealth, HealthOf
  <2>2. /\ pc' = "counting down" /\ todo' = Broker /\ down' = {} /\ warning' = {}
        /\ status' = status /\ seen' = {HealthOf(status)}
    BY <1>3 DEF getHealth
  <2>3. NotCounted'
    BY <2>2 DEF NotCounted
  <2>4. NeverDown'
    BY <2>2, HealthFacts DEF NeverDown
  <2>5. NeverWarning'
    <3>1. HealthOf(status) # "WARNING" => HealthOf(status) \in {"DOWN", "OK"}
      BY HealthFacts DEF ClusterStatus
    <3>2. QED
      BY <2>2, <3>1, HealthFacts DEF NeverWarning, AllDown, AllUp
  <2>6. QED
    BY <1>1, <2>1, <2>3, <2>4, <2>5 DEF CallInv
<1>4. QED
  BY <1>1, <1>2, <1>3

\* A pass reads one broker.
LEMMA ReadKeepsIInv ==
  ASSUME IInv, NEW b \in Broker, getStatus(b) PROVE AnswerWasTrue' /\ CallInv'
<1>1. AnswerWasTrue'
  BY DEF getStatus, AnswerWasTrue, NoHealth, ClusterStatus, IInv
<1>2. CASE b \in shut \/ disturbed
  BY <1>1, <1>2 DEF getStatus, CallInv
<1>3. CASE b \notin shut /\ ~ disturbed
  <2>1. /\ HealthOf(status) \in seen /\ NotCounted /\ NeverDown /\ NeverWarning
        /\ pc \in {"counting down", "counting warning"}
    BY <1>3 DEF getStatus, IInv, CallInv
  <2>2. /\ status' = status /\ seen' = seen /\ pc' = pc
        /\ todo' = todo \ {b} /\ b \in todo
    BY <1>3 DEF getStatus, monitorVars
  <2>3. CASE pc = "counting down"
    <3>1. warning' = warning
          /\ down' = IF status[b] = "DOWN" THEN down \cup {b} ELSE down
      BY <1>3, <2>3 DEF getStatus, Count
    <3>2. NotCounted'
      BY <2>1, <2>2, <2>3, <3>1 DEF NotCounted
    <3>3. NeverDown'
      BY <2>1, <2>2, <3>1 DEF NeverDown
    <3>4. NeverWarning'
      BY <2>1, <2>2, <2>3, <3>1 DEF NeverWarning, AllDown, AllUp
    <3>5. HealthOf(status)' \in seen'
      BY <2>1, <2>2 DEF HealthOf
    <3>6. QED
      BY <1>1, <3>2, <3>3, <3>4, <3>5 DEF CallInv
  <2>4. CASE pc = "counting warning"
    <3>1. down' = down
          /\ warning' = IF status[b] = "WARNING" THEN warning \cup {b} ELSE warning
      BY <1>3, <2>4 DEF getStatus, Count
    <3>2. NotCounted'
      <4>1. status[b] \in {"UP", "WARNING", "DOWN"}
        BY DEF IInv, TypeOK, BrokerStatus
      <4>2. QED
        BY <2>1, <2>2, <2>4, <3>1, <4>1 DEF NotCounted
    <3>3. NeverDown'
      BY <2>1, <2>2, <3>1 DEF NeverDown
    <3>4. NeverWarning'
      BY <2>1, <2>2, <2>4, <3>1 DEF NeverWarning, AllDown, AllUp
    <3>5. HealthOf(status)' \in seen'
      BY <2>1, <2>2 DEF HealthOf
    <3>6. QED
      BY <1>1, <3>2, <3>3, <3>4, <3>5 DEF CallInv
  <2>5. QED
    BY <2>1, <2>3, <2>4
<1>4. QED
  BY <1>1, <1>2, <1>3

\* The second pass begins where the first has ended.
LEMMA BetweenKeepsIInv ==
  ASSUME IInv, getNumberOfKafkaBrokersWarning PROVE AnswerWasTrue' /\ CallInv'
<1>1. AnswerWasTrue'
  BY DEF getNumberOfKafkaBrokersWarning, AnswerWasTrue, NoHealth, IInv
<1>2. CASE disturbed
  BY <1>1, <1>2 DEF getNumberOfKafkaBrokersWarning, CallInv
<1>3. CASE ~ disturbed
  <2>1. /\ HealthOf(status) \in seen /\ NotCounted /\ NeverDown /\ NeverWarning
        /\ pc = "counting down" /\ todo = {}
    BY <1>3 DEF getNumberOfKafkaBrokersWarning, IInv, CallInv
  <2>2. /\ status' = status /\ seen' = seen /\ pc' = "counting warning"
        /\ todo' = Broker /\ down' = down /\ warning' = warning
    BY DEF getNumberOfKafkaBrokersWarning, monitorVars
  <2>3. HealthOf(status)' \in seen'
    BY <2>1, <2>2 DEF HealthOf
  <2>4. NotCounted' /\ NeverDown'
    BY <2>1, <2>2 DEF NotCounted, NeverDown
  <2>5. NeverWarning'
    BY <2>1, <2>2 DEF NeverWarning, AllDown, AllUp
  <2>6. QED
    BY <1>1, <2>3, <2>4, <2>5 DEF CallInv
<1>4. QED
  BY <1>1, <1>2, <1>3

\* The verdict: each of its three values has been seen.
LEMMA ReturnKeepsIInv == ASSUME IInv, Return PROVE AnswerWasTrue' /\ CallInv'
<1>1. CallInv'
  BY DEF Return, CallInv
<1>2. CASE disturbed
  BY <1>1, <1>2 DEF Return, AnswerWasTrue, NoHealth
<1>3. CASE ~ disturbed
  <2>1. /\ HealthOf(status) \in seen /\ NotCounted /\ NeverDown /\ NeverWarning
        /\ pc = "counting warning" /\ todo = {}
    BY <1>3 DEF Return, IInv, CallInv
  <2>2. down \subseteq Broker
    BY DEF IInv, TypeOK
  <2>3. CASE down = Broker
    <3>1. Verdict(down, warning) = "DOWN"
      BY <2>3 DEF Verdict
    <3>2. "DOWN" \in seen
      BY <2>1, <2>3 DEF NeverDown
    <3>3. QED
      BY <1>1, <3>1, <3>2 DEF Return, AnswerWasTrue, NoHealth
  <2>4. CASE down = {} /\ warning = {} /\ down # Broker
    <3>1. Verdict(down, warning) = "OK"
      BY <2>4 DEF Verdict
    <3>2. \A b \in Broker : status[b] = "UP"
      BY <2>1, <2>4 DEF NotCounted
    <3>3. "OK" \in seen
      BY <2>1, <3>2, HealthFacts
    <3>4. QED
      BY <1>1, <3>1, <3>3 DEF Return, AnswerWasTrue, NoHealth
  <2>5. CASE down # Broker /\ ~ (down = {} /\ warning = {})
    <3>1. Verdict(down, warning) = "WARNING"
      BY <2>5 DEF Verdict
    <3>2. ~ AllDown
      BY <2>1, <2>5 DEF AllDown
    <3>3. ~ AllUp
      <4>1. SUFFICES ASSUME warning = {}, \A b, c \in Broker : b = c
                     PROVE  FALSE
        BY <2>5 DEF AllUp
      <4>2. down = {}
        BY <2>2, <2>5, <4>1
      <4>3. QED
        BY <2>5, <4>1, <4>2
    <3>4. "WARNING" \in seen
      BY <2>1, <3>2, <3>3 DEF NeverWarning
    <3>5. QED
      BY <1>1, <3>1, <3>4 DEF Return, AnswerWasTrue, NoHealth
  <2>6. QED
    BY <2>3, <2>4, <2>5
<1>4. QED
  BY <1>1, <1>2, <1>3

\* A status changes; during a call, if it does not worsen, it improves.
LEMMA ChangeKeepsIInv ==
  ASSUME IInv, NEW b \in Broker, StatusChanges(b) PROVE AnswerWasTrue' /\ CallInv'
<1>1. PICK s \in Attainable \ {status[b]} :
        /\ status' = [status EXCEPT ![b] = s]
        /\ disturbed' = (disturbed \/ (pc # "idle" /\ s \in Worse(status[b])))
  BY DEF StatusChanges
<1>2. /\ seen' = IF pc = "idle" THEN seen ELSE seen \cup {HealthOf(status')}
      /\ pc' = pc /\ todo' = todo /\ down' = down /\ warning' = warning
      /\ answer' = answer
  BY DEF StatusChanges, callVars
<1>3. seen \subseteq seen' /\ (disturbed => disturbed')
  BY <1>1, <1>2
<1>4. AnswerWasTrue'
  BY <1>1, <1>2, <1>3 DEF AnswerWasTrue, NoHealth, IInv
<1>5. CASE pc' = "idle" \/ disturbed'
  BY <1>4, <1>5 DEF CallInv
<1>6. CASE pc' # "idle" /\ ~ disturbed'
  <2>1. /\ HealthOf(status) \in seen /\ NotCounted /\ NeverDown /\ NeverWarning
        /\ pc # "idle" /\ s \notin Worse(status[b])
    BY <1>1, <1>2, <1>6 DEF IInv, CallInv
  <2>2. /\ \A c \in Broker \ {b} : status'[c] = status[c]
        /\ status'[b] = s /\ s # status[b] /\ s # "DOWN" /\ status[b] # "UP"
    <3>1. status[b] \in BrokerStatus /\ s \in BrokerStatus
      BY AttainableAssumption DEF IInv, TypeOK, BrokerStatus
    <3>2. s # "DOWN" /\ status[b] # "UP"
      BY <1>1, <2>1, <3>1 DEF Worse, BrokerStatus
    <3>3. QED
      BY <1>1, <3>2 DEF IInv, TypeOK
  <2>3. HealthOf(status') \in seen'
    BY <1>2, <2>1
  <2>4. HealthOf(status)' \in seen'
    BY <2>3 DEF HealthOf
  <2>5. NotCounted'
    BY <1>2, <2>1, <2>2 DEF NotCounted
  <2>6. NeverDown'
    BY <1>2, <1>3, <2>1, <2>2 DEF NeverDown
  <2>7. NeverWarning'
    <3>1. SUFFICES ASSUME "WARNING" \notin seen' PROVE AllUp'
      BY DEF NeverWarning
    <3>2. AllDown
      BY <1>3, <2>1, <2>2, <3>1 DEF NeverWarning, AllUp
    <3>3. HealthOf(status') = "OK"
      BY <2>2, <2>3, <3>1, HealthFacts DEF ClusterStatus
    <3>4. \A c \in Broker : status'[c] = "UP"
      BY <3>3, HealthFacts
    <3>5. \A c \in Broker : c = b
      BY <2>2, <3>2, <3>4 DEF AllDown
    <3>6. QED
      BY <1>2, <3>2, <3>4, <3>5 DEF AllDown, AllUp
  <2>8. QED
    BY <1>4, <2>4, <2>5, <2>6, <2>7 DEF CallInv
<1>7. QED
  BY <1>5, <1>6

\* The three facts about the inductive invariant.
THEOREM IInvCorrect == Spec => []IInv
<1>1. Init => IInv
  <2>1. Init => TypeOK
    BY AttainableAssumption DEF Init, TypeOK, BrokerStatus, ClusterStatus
  <2>2. QED
    BY <2>1 DEF Init, IInv, AnswerWasTrue, NoHealth, CallInv, ClusterStatus
<1>2. IInv /\ TypeOK' /\ [Next]_vars => IInv'
  <2> SUFFICES ASSUME IInv, [Next]_vars
               PROVE  AnswerWasTrue' /\ CallInv'
    BY DEF IInv
  <2>1. CASE getHealth
    BY <2>1, BeginKeepsIInv
  <2>2. ASSUME NEW b \in Broker, getStatus(b)
        PROVE  AnswerWasTrue' /\ CallInv'
    BY <2>2, ReadKeepsIInv
  <2>3. CASE getNumberOfKafkaBrokersWarning
    BY <2>3, BetweenKeepsIInv
  <2>4. CASE Return
    BY <2>4, ReturnKeepsIInv
  <2>5. ASSUME NEW b \in Broker, StatusChanges(b)
        PROVE  AnswerWasTrue' /\ CallInv'
    BY <2>5, ChangeKeepsIInv
  <2>6. CASE Elsewhere \/ UNCHANGED vars
    <3>1. /\ status' = status /\ seen' = seen /\ disturbed' = disturbed
          /\ pc' = pc /\ todo' = todo /\ down' = down /\ warning' = warning
          /\ answer' = answer
      BY <2>6 DEF Elsewhere, Start, RestartCloses, RestartOpens,
                  closeConnection,
                  stopMonitoring, vars, callVars
    <3>2. QED
      BY <3>1 DEF IInv, AnswerWasTrue, NoHealth, CallInv, NotCounted, NeverDown,
                  NeverWarning,
                  AllDown, AllUp, HealthOf
  <2>7. QED
    BY <2>1, <2>2, <2>3, <2>4, <2>5, <2>6 DEF Next, Elsewhere
<1>3. QED
  BY <1>1, <1>2, TypeCorrect, PTL DEF Spec

\* getHealth of the Kafka monitor, for any number of brokers: unless a broker
\* got worse during the call, the health it returned has been true during it.
THEOREM AnswerWasTrueCorrect == Spec => []AnswerWasTrue
<1>1. IInv => AnswerWasTrue
  BY DEF IInv
<1>2. QED
  BY <1>1, IInvCorrect, PTL

-----------------------------------------------------------------------------
(* The Zookeeper monitor *)

\* What a health can be, whatever it is computed from.
LEMMA ZKHealthType == ASSUME NEW c, NEW ns PROVE ZK!HealthOf(c, ns) \in ZK!Health
  BY DEF ZK!HealthOf, ZK!Health

\* What changes neither the statuses nor the call.
ZKElsewhere == ZK!Start \/ ZK!RestartCloses \/ ZK!RestartOpens \/ ZK!Stop
               \/ (\E n \in Node : ZK!stopMonitoring(n))

\* What the watchers do to the statuses.
ZKChange == ZK!GetQuorum \/ ZK!LackOfQuorum
              \/ (\E n \in Node : ZK!NodeUp(n) \/ ZK!NodeDown(n))

\* Every variable keeps its type.
THEOREM ZKTypeCorrect == ZK!Spec => []ZK!TypeOK
<1>1. ZK!Init => ZK!TypeOK
  BY DEF ZK!Init, ZK!TypeOK, ZK!NodeStatus, ZK!ClusterStatus
<1>2. ZK!TypeOK /\ [ZK!Next]_(ZK!vars) => ZK!TypeOK'
  <2>1. ASSUME ZK!TypeOK, ZK!getHealth
        PROVE  ZK!TypeOK'
    <3>1. DOMAIN zkNodes' = {} /\ seen' \in SUBSET ZK!Health
      BY <2>1, ZKHealthType DEF ZK!getHealth
    <3>2. QED
      BY <2>1, <3>1 DEF ZK!getHealth, ZK!TypeOK, ZK!monitorVars
  <2>2. ASSUME ZK!TypeOK, NEW n \in Node, ZK!getStatus(n)
        PROVE  ZK!TypeOK'
    BY <2>2 DEF ZK!getStatus, ZK!TypeOK, ZK!monitorVars, ZK!statusVars
  <2>3. ASSUME ZK!TypeOK, ZK!Return
        PROVE  ZK!TypeOK'
    <3>1. ZK!Verdict(zkClusterStatus, zkNodes) \in ZK!Health
      BY DEF ZK!Verdict, ZK!Health
    <3>2. QED
      BY <2>3, <3>1 DEF ZK!Return, ZK!TypeOK, ZK!monitorVars, ZK!statusVars
  <2>4. ASSUME ZK!TypeOK, ZKChange
        PROVE  ZK!TypeOK'
    <3>1. /\ zkNodeStatus' \in [Node -> ZK!NodeStatus]
          /\ zkClusterStatus' \in ZK!ClusterStatus
          /\ disturbed' \in BOOLEAN
      BY <2>4 DEF ZKChange, ZK!GetQuorum, ZK!LackOfQuorum, ZK!NodeUp,
                  ZK!NodeDown, ZK!StatusesBecome,
                  ZK!TypeOK, ZK!NodeStatus, ZK!ClusterStatus
    <3>2. /\ UNCHANGED <<ZK!monitorVars, ZK!callVars>>
          /\ seen' = IF pc = "idle" THEN seen
                     ELSE seen \cup {ZK!HealthOf(zkClusterStatus', zkNodeStatus')}
      BY <2>4 DEF ZKChange, ZK!GetQuorum, ZK!LackOfQuorum, ZK!NodeUp,
                  ZK!NodeDown, ZK!StatusesBecome
    <3>3. seen' \in SUBSET ZK!Health
      <4>1. ZK!HealthOf(zkClusterStatus', zkNodeStatus') \in ZK!Health
        BY ZKHealthType
      <4>2. QED
        BY <2>4, <3>2, <4>1 DEF ZK!TypeOK
    <3>4. QED
      BY <2>4, <3>1, <3>2, <3>3 DEF ZK!TypeOK, ZK!monitorVars, ZK!callVars
  <2>5. ASSUME ZK!TypeOK, ZKElsewhere
        PROVE  ZK!TypeOK'
    BY <2>5 DEF ZKElsewhere, ZK!Start, ZK!RestartCloses, ZK!RestartOpens,
                ZK!Stop, ZK!stopMonitoring,
                ZK!TypeOK, ZK!statusVars, ZK!callVars
  <2>6. ASSUME ZK!TypeOK, UNCHANGED ZK!vars
        PROVE  ZK!TypeOK'
    BY <2>6 DEF ZK!TypeOK, ZK!vars, ZK!monitorVars, ZK!statusVars, ZK!callVars
  <2>7. QED
    BY <2>1, <2>2, <2>3, <2>4, <2>5, <2>6 DEF ZK!Next, ZKChange, ZKElsewhere
<1>3. QED
  BY <1>1, <1>2, PTL DEF ZK!Spec

-----------------------------------------------------------------------------
(* The inductive invariant *)

\* A node that was read DOWN is still so, until something improves.
ZKStillDown ==
  \A n \in DOMAIN zkNodes : zkNodes[n] = "DOWN" => zkNodeStatus[n] = "DOWN"

\* A cluster that was never OK has no quorum, or a node that is DOWN and has
\* not been read otherwise.
ZKNeverOk ==
  "OK" \notin seen =>
    \/ zkClusterStatus = "NO_QUORUM"
    \/ \E n \in Node : /\ zkNodeStatus[n] = "DOWN"
                       /\ n \in DOMAIN zkNodes => zkNodes[n] = "DOWN"

ZKCallInv ==
  pc # "idle" /\ ~ disturbed =>
    /\ ZK!HealthOf(zkClusterStatus, zkNodeStatus) \in seen
    /\ ZKStillDown
    /\ ZKNeverOk

\* The cluster is looked at when all nodes have been read.
ZKAllRead == pc = "cluster" => DOMAIN zkNodes = Node

ZKIInv == ZK!TypeOK /\ AnswerWasTrue /\ ZKCallInv /\ ZKAllRead

\* The call begins with one instant seen, and nothing read.
LEMMA ZKBeginKeepsIInv ==
  ASSUME ZKIInv, ZK!getHealth
  PROVE  (AnswerWasTrue /\ ZKCallInv /\ ZKAllRead)'
<1>1. /\ zkNodeStatus' = zkNodeStatus /\ zkClusterStatus' = zkClusterStatus
      /\ seen' = {ZK!HealthOf(zkClusterStatus, zkNodeStatus)}
      /\ DOMAIN zkNodes' = {} /\ pc' # "cluster" /\ answer' \in NoHealth
  BY DEF ZK!getHealth, NoHealth, ZKIInv, ZK!TypeOK
<1>2. AnswerWasTrue' /\ ZKAllRead' /\ ZKStillDown'
  BY <1>1 DEF AnswerWasTrue, ZKAllRead, ZKStillDown
<1>3. ZK!HealthOf(zkClusterStatus, zkNodeStatus)' \in seen'
  BY <1>1 DEF ZK!HealthOf
<1>4. ZKNeverOk'
  <2>1. zkClusterStatus \in ZK!ClusterStatus /\ zkNodeStatus \in [Node -> ZK!NodeStatus]
    BY DEF ZKIInv, ZK!TypeOK
  <2>2. QED
    BY <1>1, <2>1 DEF ZKNeverOk, ZK!HealthOf, ZK!ClusterStatus, ZK!NodeStatus
<1>5. QED
  BY <1>2, <1>3, <1>4 DEF ZKCallInv

\* One node is read.
LEMMA ZKReadKeepsIInv ==
  ASSUME ZKIInv, NEW n \in Node, ZK!getStatus(n)
  PROVE  (AnswerWasTrue /\ ZKCallInv /\ ZKAllRead)'
<1>1. CASE n \in shut
  BY <1>1 DEF ZK!getStatus, ZK!statusVars, ZKIInv, AnswerWasTrue, NoHealth, ZKCallInv,
              ZKAllRead, ZK!Health
<1>2. CASE n \notin shut
  <2>1. /\ zkNodeStatus' = zkNodeStatus /\ zkClusterStatus' = zkClusterStatus
        /\ seen' = seen /\ disturbed' = disturbed /\ answer' = answer /\ pc = "nodes"
    BY <1>2 DEF ZK!getStatus, ZK!statusVars
  <2>2. /\ zkNodes' = [m \in DOMAIN zkNodes \cup {n} |->
                         IF m = n THEN zkNodeStatus[n] ELSE zkNodes[m]]
        /\ pc' = IF DOMAIN zkNodes' = Node THEN "cluster" ELSE "nodes"
    BY <1>2 DEF ZK!getStatus
  <2>3. AnswerWasTrue'
    BY <2>1 DEF AnswerWasTrue, NoHealth, ZKIInv
  <2>4. ZKAllRead'
    BY <2>2 DEF ZKAllRead
  <2>5. ASSUME ~ disturbed'
        PROVE  /\ ZKStillDown' /\ ZKNeverOk'
               /\ ZK!HealthOf(zkClusterStatus, zkNodeStatus)' \in seen'
    <3>1. ZKStillDown /\ ZKNeverOk /\ ZK!HealthOf(zkClusterStatus, zkNodeStatus) \in seen
      BY <2>1, <2>5 DEF ZKIInv, ZKCallInv
    <3>2. ZKStillDown'
      BY <2>1, <2>2, <3>1 DEF ZKStillDown
    <3>3. ZKNeverOk'
      BY <2>1, <2>2, <3>1 DEF ZKNeverOk
    <3>4. QED
      BY <2>1, <3>1, <3>2, <3>3 DEF ZK!HealthOf
  <2>6. QED
    BY <2>3, <2>4, <2>5 DEF ZKCallInv
<1>3. QED
  BY <1>1, <1>2

\* The verdict: each of its three values has been seen.
LEMMA ZKReturnKeepsIInv ==
  ASSUME ZKIInv, ZK!Return
  PROVE  (AnswerWasTrue /\ ZKCallInv /\ ZKAllRead)'
<1>1. ZKCallInv' /\ ZKAllRead'
  BY DEF ZK!Return, ZKCallInv, ZKAllRead
<1>2. CASE disturbed
  BY <1>1, <1>2 DEF ZK!Return, AnswerWasTrue, NoHealth, ZK!statusVars
<1>3. CASE ~ disturbed
  <2>1. ZKStillDown /\ ZKNeverOk /\ ZK!HealthOf(zkClusterStatus, zkNodeStatus) \in seen
    BY <1>3 DEF ZK!Return, ZKIInv, ZKCallInv
  <2>2. /\ DOMAIN zkNodes = Node
        /\ zkClusterStatus \in ZK!ClusterStatus
    BY DEF ZK!Return, ZKIInv, ZKAllRead, ZK!TypeOK
  <2>3. ZK!Verdict(zkClusterStatus, zkNodes) \in seen
    <3>1. CASE zkClusterStatus = "NO_QUORUM"
      BY <2>1, <3>1 DEF ZK!Verdict, ZK!HealthOf
    <3>2. CASE zkClusterStatus # "NO_QUORUM" /\ \E n \in Node : zkNodes[n] = "DOWN"
      <4>1. \E n \in Node : zkNodeStatus[n] = "DOWN"
        BY <2>1, <2>2, <3>2 DEF ZKStillDown
      <4>2. QED
        BY <2>1, <2>2, <3>2, <4>1 DEF ZK!Verdict, ZK!HealthOf
    <3>3. CASE zkClusterStatus # "NO_QUORUM" /\ ~ \E n \in Node : zkNodes[n] = "DOWN"
      BY <2>1, <2>2, <3>3 DEF ZK!Verdict, ZKNeverOk
    <3>4. QED
      BY <3>1, <3>2, <3>3
  <2>4. QED
    BY <1>1, <2>3 DEF ZK!Return, AnswerWasTrue, NoHealth, ZK!statusVars
<1>4. QED
  BY <1>2, <1>3

\* A status changes; during a call, if it does not improve, it worsens.
LEMMA ZKChangeKeepsIInv ==
  ASSUME ZKIInv, ZKChange
  PROVE  (AnswerWasTrue /\ ZKCallInv /\ ZKAllRead)'
<1>1. /\ pc' = pc /\ zkNodes' = zkNodes /\ answer' = answer
      /\ seen' = IF pc = "idle" THEN seen
                 ELSE seen \cup {ZK!HealthOf(zkClusterStatus', zkNodeStatus')}
  BY DEF ZKChange, ZK!GetQuorum, ZK!LackOfQuorum, ZK!NodeUp, ZK!NodeDown,
         ZK!StatusesBecome, ZK!callVars
<1>2. disturbed => disturbed'
  BY DEF ZKChange, ZK!GetQuorum, ZK!LackOfQuorum, ZK!NodeUp, ZK!NodeDown
<1>3. AnswerWasTrue' /\ ZKAllRead'
  BY <1>1, <1>2 DEF ZKIInv, AnswerWasTrue, NoHealth, ZKAllRead
<1>4. ASSUME pc # "idle", ~ disturbed'
      PROVE  /\ ZKStillDown' /\ ZKNeverOk'
             /\ ZK!HealthOf(zkClusterStatus, zkNodeStatus)' \in seen'
  <2>1. ZKStillDown /\ ZKNeverOk
    BY <1>4, <1>2 DEF ZKIInv, ZKCallInv
  <2>2. /\ zkClusterStatus' \in {zkClusterStatus, "NO_QUORUM"}
        /\ \A n \in Node : zkNodeStatus[n] = "DOWN" => zkNodeStatus'[n] = "DOWN"
    BY <1>4 DEF ZKChange, ZK!GetQuorum, ZK!LackOfQuorum, ZK!NodeUp,
                ZK!NodeDown, ZK!StatusesBecome,
                ZKIInv, ZK!TypeOK
  <2>3. ZKStillDown'
    <3>1. DOMAIN zkNodes \subseteq Node
      BY DEF ZKIInv, ZK!TypeOK
    <3>2. QED
      BY <1>1, <2>1, <2>2, <3>1 DEF ZKStillDown
  <2>4. ZKNeverOk'
    BY <1>1, <2>1, <2>2 DEF ZKNeverOk
  <2>5. ZK!HealthOf(zkClusterStatus, zkNodeStatus)' \in seen'
    BY <1>1, <1>4 DEF ZK!HealthOf
  <2>6. QED
    BY <2>3, <2>4, <2>5
<1>5. QED
  BY <1>1, <1>3, <1>4 DEF ZKCallInv

\* The three facts about the inductive invariant.
THEOREM ZKIInvCorrect == ZK!Spec => []ZKIInv
<1>1. ZK!Init => ZKIInv
  <2>1. ZK!Init => ZK!TypeOK
    BY DEF ZK!Init, ZK!TypeOK, ZK!NodeStatus, ZK!ClusterStatus
  <2>2. QED
    BY <2>1 DEF ZK!Init, ZKIInv, AnswerWasTrue, NoHealth, ZKCallInv, ZKAllRead,
                ZK!Health
<1>2. ZKIInv /\ ZK!TypeOK' /\ [ZK!Next]_(ZK!vars) => ZKIInv'
  <2> SUFFICES ASSUME ZKIInv, [ZK!Next]_(ZK!vars)
               PROVE  (AnswerWasTrue /\ ZKCallInv /\ ZKAllRead)'
    BY DEF ZKIInv
  <2>1. CASE ZK!getHealth
    BY <2>1, ZKBeginKeepsIInv
  <2>2. ASSUME NEW n \in Node, ZK!getStatus(n)
        PROVE  (AnswerWasTrue /\ ZKCallInv /\ ZKAllRead)'
    BY <2>2, ZKReadKeepsIInv
  <2>3. CASE ZK!Return
    BY <2>3, ZKReturnKeepsIInv
  <2>4. CASE ZKChange
    BY <2>4, ZKChangeKeepsIInv
  <2>5. CASE ZKElsewhere \/ UNCHANGED ZK!vars
    <3>1. UNCHANGED <<zkNodeStatus, zkClusterStatus, seen, disturbed, pc, zkNodes, answer>>
      BY <2>5 DEF ZKElsewhere, ZK!Start, ZK!RestartCloses, ZK!RestartOpens,
                  ZK!Stop, ZK!stopMonitoring,
                  ZK!vars, ZK!statusVars, ZK!callVars
    <3>2. QED
      BY <3>1 DEF ZKIInv, AnswerWasTrue, NoHealth, ZKCallInv, ZKAllRead, ZKStillDown,
                  ZKNeverOk, ZK!HealthOf
  <2>6. QED
    BY <2>1, <2>2, <2>3, <2>4, <2>5 DEF ZK!Next, ZKChange, ZKElsewhere
<1>3. QED
  BY <1>1, <1>2, ZKTypeCorrect, PTL DEF ZK!Spec

\* getHealth of the Zookeeper monitor, for any number of nodes: unless a status
\* improved during the call, the health it returned has been true during it.
THEOREM ZKAnswerWasTrueCorrect == ZK!Spec => []AnswerWasTrue
<1>1. ZKIInv => AnswerWasTrue
  BY DEF ZKIInv
<1>2. QED
  BY <1>1, ZKIInvCorrect, PTL

=============================================================================
