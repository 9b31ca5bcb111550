------------------------ MODULE KFBrokerWatcherProofs ------------------------
(***************************************************************************)
(* KFBrokerWatcher for any number of brokers and updater threads: types,   *)
(* the inductive invariant, the refinement of EndpointStatus, and that no  *)
(* broker is ever seen to be UP.                                           *)
(***************************************************************************)
EXTENDS KFBrokerWatcher, TLAPS

\* Looking a registration up and judging it stay within the enumerations.
LEMMA StatusOfType ==
  /\ \A k, b : getBrokerMetadataByAddress(k, b) \in Metadata
  /\ \A m : StatusOf(m) \in Status
BY DEF getBrokerMetadataByAddress, StatusOf, Metadata, NoEndpoint, Status

\* Every variable of the watchers keeps its type.
THEOREM TypeCorrect == Spec => []TypeOK
<1>1. Init => TypeOK
  <2> SUFFICES ASSUME Init PROVE TypeOK
    OBVIOUS
  <2>1. kfBrokerMetadata \in [Broker -> Metadata]
    BY StatusOfType DEF Init, Metadata
  <2>2. kfBrokerStatus \in [Broker -> Status]
    BY StatusOfType DEF Init, Status
  <2>3. QED
    BY <2>1, <2>2 DEF Init, TypeOK, Status, Controller, PC
<1>2. TypeOK /\ [Next]_vars => TypeOK'
  <2> USE DEF TypeOK
  <2>1. ASSUME TypeOK, NEW b \in Broker, startMonitoring(b)
        PROVE  TypeOK'
    BY <2>1 DEF startMonitoring, Controller
  <2>2. ASSUME TypeOK, NEW b \in Broker, stopMonitoring(b)
        PROVE  TypeOK'
    BY <2>2 DEF stopMonitoring, Controller, Metadata
  <2>3. ASSUME TypeOK, NEW b \in Broker, NEW t \in Updater, updateStatusAsync(b, t)
        PROVE  TypeOK'
    BY <2>3 DEF updateStatusAsync, Thread, PC
  <2>4. ASSUME TypeOK, NEW b \in Broker, pollingCommand(b)
        PROVE  TypeOK'
    BY <2>4 DEF pollingCommand, Thread, PC
  <2>5. ASSUME TypeOK, NEW b \in Broker, NEW t \in Thread, connect(b, t)
        PROVE  TypeOK'
    BY <2>5 DEF connect, PC, InMonitor
  <2>6. ASSUME TypeOK, NEW b \in Broker, NEW t \in Thread, updateMetadataSync(b, t)
        PROVE  TypeOK'
    <3>1. PICK m \in Metadata :
            kfBrokerMetadata' = [kfBrokerMetadata EXCEPT ![b] = m]
      BY <2>6, StatusOfType DEF updateMetadataSync
    <3>2. pc' \in [Broker -> [Thread -> PC]]
      BY <2>6 DEF updateMetadataSync, PC, InMonitor
    <3>3. kfBrokerMetadata' \in [Broker -> Metadata]
      BY <2>6, <3>1
    <3>4. QED
      BY <2>6, <3>2, <3>3 DEF updateMetadataSync
  <2>7. ASSUME TypeOK, NEW b \in Broker, NEW t \in Thread, SetReachable(b, t)
        PROVE  TypeOK'
    <3>1. PICK s \in Status : GetAndSet(b, t, s)
      BY <2>7, StatusOfType DEF SetReachable
    <3>2. pc' \in [Broker -> [Thread -> PC]]
      BY <2>7 DEF SetReachable, PC, InMonitor
    <3>3. kfBrokerStatus' \in [Broker -> Status] /\ local' \in [Broker -> [Thread -> Status]]
      BY <2>7, <3>1 DEF GetAndSet
    <3>4. QED
      BY <2>7, <3>1, <3>2, <3>3 DEF SetReachable, GetAndSet
  <2>8. ASSUME TypeOK, NEW b \in Broker, NEW t \in Thread, SetDown(b, t)
        PROVE  TypeOK'
    BY <2>8 DEF SetDown, GetAndSet, PC, InMonitor, Status
  <2>9. ASSUME TypeOK, NEW b \in Broker, NEW t \in Thread, initializeBrokerMetadata(b, t)
        PROVE  TypeOK'
    BY <2>9 DEF initializeBrokerMetadata, PC, InMonitor, Metadata
  <2>10. ASSUME TypeOK, NEW b \in Broker, NEW t \in Thread,
                emitEventIfBrokerStatusHasChanged(b, t)
         PROVE  TypeOK'
    <3>1. controller' \in [Broker -> Controller]
      BY <2>10 DEF emitEventIfBrokerStatusHasChanged, ControllerAfterThrow, Controller
    <3>2. notified' \in [Broker -> Status]
      BY <2>10 DEF emitEventIfBrokerStatusHasChanged, Callback
    <3>3. beat' \in [Broker -> 0..1]
      <4>1. 1 - beat[b] \in 0..1
        BY <2>10
      <4>2. QED
        BY <2>10, <4>1 DEF emitEventIfBrokerStatusHasChanged, Callback
    <3>4. pc' \in [Broker -> [Thread -> PC]]
      BY <2>10 DEF emitEventIfBrokerStatusHasChanged, PC
    <3>5. local' \in [Broker -> [Thread -> Status]]
      BY <2>10 DEF emitEventIfBrokerStatusHasChanged, Status
    <3>6. QED
      BY <2>10, <3>1, <3>2, <3>3, <3>4, <3>5 DEF emitEventIfBrokerStatusHasChanged
  <2>11. ASSUME TypeOK, NEW b \in Broker, ReachabilityChanges(b)
         PROVE  TypeOK'
    BY <2>11 DEF ReachabilityChanges
  <2>12. ASSUME TypeOK, NEW b \in Broker, RegistrationChanges(b)
         PROVE  TypeOK'
    BY <2>12 DEF RegistrationChanges
  <2>13. ASSUME TypeOK, UNCHANGED vars
         PROVE  TypeOK'
    BY <2>13 DEF vars
  <2>14. QED
    BY <2>1, <2>2, <2>3, <2>4, <2>5, <2>6, <2>7, <2>8, <2>9, <2>10, <2>11,
       <2>12, <2>13 DEF Next, Internal, Run
<1>3. QED
  BY <1>1, <1>2, PTL DEF Spec

-----------------------------------------------------------------------------
(* The steps of a thread, by what they do to the two conjuncts *)

\* Only the program counter of thread t of watcher b moves, to x.
MovesTo(b, t, x) ==
  /\ pc'[b][t] = x
  /\ \A c \in Broker, u \in Thread : <<c, u>> # <<b, t>> => pc'[c][u] = pc[c][u]

\* An update of one entry of pc is such a move.
LEMMA PcUpdate ==
  ASSUME TypeOK, NEW b \in Broker, NEW t \in Thread, NEW x,
         pc' = [pc EXCEPT ![b][t] = x]
  PROVE  MovesTo(b, t, x)
BY DEF TypeOK, MovesTo

\* Threads that start, enter the empty monitor, or go on inside it without
\* setting the status or leaving, preserve both conjuncts.
LEMMA MovePreservesIInv ==
  ASSUME IInv, NEW b \in Broker, NEW t \in Thread, NEW x, MovesTo(b, t, x),
         x \in InMonitor => pc[b][t] \in InMonitor \/ MonitorFree(b),
         x \in HasSet <=> pc[b][t] \in HasSet,
         kfBrokerStatus' = kfBrokerStatus, notified' = notified, local' = local
  PROVE  MutualExclusion' /\ ListenerTracksStatus'
<1>1. MutualExclusion'
  BY DEF IInv, MutualExclusion, MovesTo, MonitorFree
<1>2. ListenerTracksStatus'
  BY DEF IInv, ListenerTracksStatus, MovesTo
<1>3. QED
  BY <1>1, <1>2

\* The getAndSet happens alone in the monitor, so the status it replaces is the
\* one the listener knows.
LEMMA SetPreservesIInv ==
  ASSUME IInv, NEW b \in Broker, NEW t \in Thread, NEW s \in Status, NEW x \in HasSet,
         pc[b][t] \in InMonitor \ HasSet, GetAndSet(b, t, s), MovesTo(b, t, x)
  PROVE  /\ notified[b] = kfBrokerStatus[b]
         /\ MutualExclusion' /\ ListenerTracksStatus'
<1>1. \A u \in Thread : pc[b][u] \notin HasSet
  BY DEF IInv, MutualExclusion, InMonitor, HasSet
<1>2. notified[b] = kfBrokerStatus[b]
  BY <1>1 DEF IInv, ListenerTracksStatus
<1>3. /\ \A c \in Broker, u \in Thread : <<c, u>> # <<b, t>> => local'[c][u] = local[c][u]
      /\ local'[b][t] = kfBrokerStatus[b]
      /\ \A c \in Broker : c # b => kfBrokerStatus'[c] = kfBrokerStatus[c]
      /\ notified' = notified
  BY DEF GetAndSet, IInv, TypeOK
<1>4. MutualExclusion'
  BY DEF IInv, MutualExclusion, MovesTo, InMonitor, HasSet
<1>5. ListenerTracksStatus'
  BY <1>1, <1>2, <1>3 DEF IInv, ListenerTracksStatus, MovesTo
<1>6. QED
  BY <1>2, <1>4, <1>5

\* The comparison finds a difference exactly when the listener is behind, and
\* leaves it up to date.
LEMMA EmitPreservesIInv ==
  ASSUME IInv, NEW b \in Broker, NEW t \in Thread,
         emitEventIfBrokerStatusHasChanged(b, t)
  PROVE  /\ notified[b] = local[b][t]
         /\ MutualExclusion' /\ ListenerTracksStatus'
<1>1. notified[b] = local[b][t]
  BY DEF IInv, emitEventIfBrokerStatusHasChanged, ListenerTracksStatus, HasSet
<1>2. /\ pc[b][t] = "compare" /\ MovesTo(b, t, "idle")
      /\ \A c \in Broker, u \in Thread : <<c, u>> # <<b, t>> => local'[c][u] = local[c][u]
      /\ kfBrokerStatus' = kfBrokerStatus
  BY PcUpdate DEF emitEventIfBrokerStatusHasChanged, IInv, TypeOK
<1>3. /\ notified'[b] = kfBrokerStatus[b]
      /\ \A c \in Broker : c # b => notified'[c] = notified[c]
  BY <1>1 DEF emitEventIfBrokerStatusHasChanged, HasChanged, Callback, IInv, TypeOK
<1>4. MutualExclusion'
  BY <1>2 DEF IInv, MutualExclusion, MovesTo, InMonitor
<1>5. ListenerTracksStatus'
  <2>1. \A u \in Thread : u # t => pc[b][u] \notin HasSet
    BY <1>2 DEF IInv, MutualExclusion, InMonitor, HasSet
  <2>2. "idle" \notin HasSet
    BY DEF HasSet
  <2>3. QED
    BY <1>2, <1>3, <2>1, <2>2 DEF IInv, ListenerTracksStatus, MovesTo
<1>6. QED
  BY <1>1, <1>4, <1>5

\* Both ways of setting the status are a getAndSet inside the monitor.
LEMMA SetSteps ==
  ASSUME TypeOK, NEW b \in Broker, NEW t \in Thread,
         SetReachable(b, t) \/ SetDown(b, t)
  PROVE  /\ pc[b][t] \in InMonitor \ HasSet
         /\ \E s \in Status, x \in HasSet : GetAndSet(b, t, s) /\ MovesTo(b, t, x)
<1>1. CASE SetReachable(b, t)
  BY <1>1, StatusOfType, PcUpdate DEF SetReachable, InMonitor, HasSet
<1>2. CASE SetDown(b, t)
  BY <1>2, PcUpdate DEF SetDown, InMonitor, HasSet, Status
<1>3. QED
  BY <1>1, <1>2

\* The invariant is inductive.
LEMMA NextPreservesIInv ==
  ASSUME IInv, [Next]_vars
  PROVE  MutualExclusion' /\ ListenerTracksStatus'
<1> USE DEF IInv
<1>1. ASSUME NEW b \in Broker, NEW t \in Thread, connect(b, t)
      PROVE  MutualExclusion' /\ ListenerTracksStatus'
  <2>1. PICK x \in {"connected", "refused"} : MovesTo(b, t, x)
    BY <1>1, PcUpdate DEF connect
  <2>2. QED
    BY <1>1, <2>1, MovePreservesIInv DEF connect, MayEnter, InMonitor, HasSet
<1>2. ASSUME NEW b \in Broker, NEW t \in Thread, updateMetadataSync(b, t)
      PROVE  MutualExclusion' /\ ListenerTracksStatus'
  <2>1. MovesTo(b, t, "looked up")
    BY <1>2, PcUpdate DEF updateMetadataSync
  <2>2. QED
    BY <1>2, <2>1, MovePreservesIInv DEF updateMetadataSync, InMonitor, HasSet
<1>3. ASSUME NEW b \in Broker, NEW t \in Thread, initializeBrokerMetadata(b, t)
      PROVE  MutualExclusion' /\ ListenerTracksStatus'
  <2>1. MovesTo(b, t, "compare")
    BY <1>3, PcUpdate DEF initializeBrokerMetadata
  <2>2. QED
    BY <1>3, <2>1, MovePreservesIInv DEF initializeBrokerMetadata, InMonitor, HasSet
<1>4. CASE \E b \in Broker, t \in Thread : SetReachable(b, t) \/ SetDown(b, t)
  BY <1>4, SetSteps, SetPreservesIInv
<1>5. CASE \E b \in Broker, t \in Thread : emitEventIfBrokerStatusHasChanged(b, t)
  BY <1>5, EmitPreservesIInv
<1>6. ASSUME NEW b \in Broker, NEW t \in Thread,
             pc[b][t] = "idle", pc' = [pc EXCEPT ![b][t] = "entering"],
             kfBrokerStatus' = kfBrokerStatus, notified' = notified, local' = local
      PROVE  MutualExclusion' /\ ListenerTracksStatus'
  <2>1. MovesTo(b, t, "entering")
    BY <1>6, PcUpdate
  <2>2. QED
    BY <1>6, <2>1, MovePreservesIInv DEF InMonitor, HasSet
<1>7. CASE \E b \in Broker : pollingCommand(b) \/ \E t \in Updater : updateStatusAsync(b, t)
  BY <1>6, <1>7 DEF pollingCommand, updateStatusAsync, Thread
<1>8. CASE \/ \E b \in Broker : \/ startMonitoring(b) \/ stopMonitoring(b)
                                \/ ReachabilityChanges(b) \/ RegistrationChanges(b)
           \/ UNCHANGED vars
  <2>1. UNCHANGED <<kfBrokerStatus, notified, pc, local>>
    BY <1>8 DEF startMonitoring, stopMonitoring, ReachabilityChanges,
                RegistrationChanges, vars
  <2>2. QED
    BY <2>1 DEF MutualExclusion, ListenerTracksStatus
<1>9. QED
  BY <1>1, <1>2, <1>3, <1>4, <1>5, <1>7, <1>8 DEF Next, Internal, Run

-----------------------------------------------------------------------------

\* The invariant holds in every reachable state.
THEOREM IInvCorrect == Spec => []IInv
<1>1. Init => MutualExclusion /\ ListenerTracksStatus
  BY DEF Init, MutualExclusion, ListenerTracksStatus, InMonitor, HasSet
<1>2. MutualExclusion /\ ListenerTracksStatus /\ TypeOK /\ [Next]_vars
        => MutualExclusion' /\ ListenerTracksStatus'
  BY NextPreservesIInv DEF IInv
<1>3. QED
  BY <1>1, <1>2, TypeCorrect, PTL DEF Spec, IInv

\* Whenever no thread is inside the synchronized method of a watcher, its
\* listener knows the watcher's status.
THEOREM ListenerUpToDateCorrect == Spec => []ListenerUpToDate
<1>1. IInv => ListenerUpToDate
  BY DEF IInv, ListenerUpToDate, ListenerTracksStatus, MonitorFree, InMonitor, HasSet
<1>2. QED
  BY <1>1, IInvCorrect, PTL

\* The watchers implement EndpointStatus: setting a different status is its
\* Observe, the callback its Notify, every other step a stutter.
THEOREM Refinement == Spec => ImplementsEndpointStatus
<1>1. Init => Abstract!AInit
  <2> SUFFICES ASSUME Init PROVE Abstract!AInit
    OBVIOUS
  <2>1. kfBrokerStatus \in [Broker -> Status]
    BY StatusOfType DEF Init, Status
  <2>2. QED
    BY <2>1 DEF Init, Abstract!AInit
<1>2. IInv /\ [Next]_vars => [Abstract!ANext]_(Abstract!avars)
  <2> SUFFICES ASSUME IInv, [Next]_vars
               PROVE  Abstract!ANext \/ UNCHANGED Abstract!avars
    OBVIOUS
  <2>1. ASSUME NEW b \in Broker, NEW t \in Thread, SetReachable(b, t) \/ SetDown(b, t)
        PROVE  Abstract!ANext \/ UNCHANGED Abstract!avars
    <3>1. PICK s \in Status, x \in HasSet : GetAndSet(b, t, s) /\ MovesTo(b, t, x)
      BY <2>1, SetSteps DEF IInv
    <3>2. notified[b] = kfBrokerStatus[b]
      BY <2>1, <3>1, SetSteps, SetPreservesIInv DEF IInv
    <3>3. CASE s = kfBrokerStatus[b]
      BY <3>1, <3>3 DEF GetAndSet, IInv, TypeOK, Abstract!avars
    <3>4. CASE s # kfBrokerStatus[b]
      <4>1. Abstract!Observe(b, s)
        BY <3>1, <3>2, <3>4 DEF GetAndSet, Abstract!Observe
      <4>2. QED
        BY <4>1 DEF Abstract!ANext
    <3>5. QED
      BY <3>3, <3>4
  <2>2. ASSUME NEW b \in Broker, NEW t \in Thread,
               emitEventIfBrokerStatusHasChanged(b, t)
        PROVE  Abstract!ANext \/ UNCHANGED Abstract!avars
    <3>1. notified[b] = local[b][t]
      BY <2>2, EmitPreservesIInv
    <3>2. CASE HasChanged(b, t)
      <4>1. Abstract!Notify(b)
        BY <2>2, <3>1, <3>2
           DEF emitEventIfBrokerStatusHasChanged, HasChanged, Callback, Abstract!Notify
      <4>2. QED
        BY <4>1 DEF Abstract!ANext
    <3>3. CASE ~ HasChanged(b, t)
      BY <2>2, <3>3 DEF emitEventIfBrokerStatusHasChanged, Abstract!avars
    <3>4. QED
      BY <3>2, <3>3
  <2>3. CASE \E b \in Broker : \/ startMonitoring(b) \/ stopMonitoring(b)
                               \/ pollingCommand(b) \/ ReachabilityChanges(b)
                               \/ RegistrationChanges(b)
                               \/ \E t \in Updater : updateStatusAsync(b, t)
                               \/ \E t \in Thread : \/ connect(b, t)
                                                    \/ updateMetadataSync(b, t)
                                                    \/ initializeBrokerMetadata(b, t)
    BY <2>3 DEF startMonitoring, stopMonitoring, pollingCommand, ReachabilityChanges,
                RegistrationChanges, updateStatusAsync, connect, updateMetadataSync,
                initializeBrokerMetadata, Abstract!avars
  <2>4. CASE UNCHANGED vars
    BY <2>4 DEF vars, Abstract!avars
  <2>5. QED
    BY <2>1, <2>2, <2>3, <2>4 DEF Next, Internal, Run
<1>3. QED
  BY <1>1, <1>2, IInvCorrect, PTL DEF Spec, ImplementsEndpointStatus, Abstract!ASpec

-----------------------------------------------------------------------------

\* Because getBrokerMetadataByAddress never finds an endpoint, no broker has
\* metadata, and none is UP, whatever Zookeeper says of it.
NeverUp ==
  \A b \in Broker : kfBrokerMetadata[b] = NoEndpoint /\ kfBrokerStatus[b] # "UP"

\* No watcher ever reports its broker UP.
THEOREM NeverUpCorrect == Spec => []NeverUp
<1>1. Init => NeverUp
  <2> SUFFICES ASSUME Init, NEW b \in Broker
               PROVE  kfBrokerMetadata[b] = NoEndpoint /\ kfBrokerStatus[b] # "UP"
    BY DEF NeverUp
  <2>1. kfBrokerMetadata[b] = NoEndpoint
    BY DEF Init, getBrokerMetadataByAddress
  <2>2. kfBrokerStatus[b] # "UP"
    BY <2>1 DEF Init, StatusOf
  <2>3. QED
    BY <2>1, <2>2
<1>2. TypeOK /\ NeverUp /\ [Next]_vars => NeverUp'
  <2> SUFFICES ASSUME TypeOK, NeverUp, [Next]_vars
               PROVE  NeverUp'
    OBVIOUS
  <2>1. ASSUME NEW b \in Broker, NEW t \in Thread, SetReachable(b, t)
        PROVE  NeverUp'
    BY <2>1 DEF SetReachable, GetAndSet, NeverUp, StatusOf, TypeOK
  <2>2. ASSUME NEW b \in Broker, NEW t \in Thread, SetDown(b, t)
        PROVE  NeverUp'
    BY <2>2 DEF SetDown, GetAndSet, NeverUp, TypeOK
  <2>3. ASSUME NEW b \in Broker, NEW t \in Thread, updateMetadataSync(b, t)
        PROVE  NeverUp'
    BY <2>3 DEF updateMetadataSync, getBrokerMetadataByAddress, NeverUp, TypeOK
  <2>4. ASSUME NEW b \in Broker, NEW t \in Thread, initializeBrokerMetadata(b, t)
        PROVE  NeverUp'
    BY <2>4 DEF initializeBrokerMetadata, NeverUp, TypeOK
  <2>5. ASSUME NEW b \in Broker, stopMonitoring(b)
        PROVE  NeverUp'
    BY <2>5 DEF stopMonitoring, NeverUp, TypeOK
  <2>6. CASE \E b \in Broker : \/ startMonitoring(b) \/ pollingCommand(b)
                               \/ ReachabilityChanges(b) \/ RegistrationChanges(b)
                               \/ \E t \in Updater : updateStatusAsync(b, t)
                               \/ \E t \in Thread : \/ connect(b, t)
                                    \/ emitEventIfBrokerStatusHasChanged(b, t)
    BY <2>6 DEF startMonitoring, pollingCommand, ReachabilityChanges,
                RegistrationChanges, updateStatusAsync, connect,
                emitEventIfBrokerStatusHasChanged, NeverUp
  <2>7. CASE UNCHANGED vars
    BY <2>7 DEF vars, NeverUp
  <2>8. QED
    BY <2>1, <2>2, <2>3, <2>4, <2>5, <2>6, <2>7 DEF Next, Internal, Run
<1>3. QED
  BY <1>1, <1>2, TypeCorrect, PTL DEF Spec

=============================================================================
