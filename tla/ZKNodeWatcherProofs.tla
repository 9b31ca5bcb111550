------------------------ MODULE ZKNodeWatcherProofs ------------------------
(***************************************************************************)
(* ZKNodeWatcher for any number of nodes, updater threads and polling      *)
(* tasks: types, the inductive invariant, and the refinement of            *)
(* EndpointStatus.                                                         *)
(***************************************************************************)
EXTENDS ZKNodeWatcher, TLAPS

\* Every variable of the watchers keeps its type.
THEOREM TypeCorrect == Spec => []TypeOK
<1>1. Init => TypeOK
  BY DEF Init, TypeOK, Status, PC, InMonitor
<1>2. TypeOK /\ [Next]_vars => TypeOK'
  <2> USE DEF TypeOK
  <2>1. ASSUME TypeOK, NEW n \in Node, startMonitoring(n)
        PROVE  TypeOK'
    BY <2>1 DEF startMonitoring
  <2>2. ASSUME TypeOK, NEW n \in Node, stopMonitoring(n)
        PROVE  TypeOK'
    BY <2>2 DEF stopMonitoring
  <2>3. ASSUME TypeOK, NEW n \in Node, NEW t \in Updater, updateStatus(n, t)
        PROVE  TypeOK'
    BY <2>3 DEF updateStatus, Thread, PC
  <2>4. ASSUME TypeOK, NEW n \in Node, pollingCommand(n)
        PROVE  TypeOK'
    BY <2>4 DEF pollingCommand, Thread, PC
  <2>5. ASSUME TypeOK, NEW n \in Node, NEW t \in Thread, send4LetterWord(n, t)
        PROVE  TypeOK'
    BY <2>5 DEF send4LetterWord, PC, InMonitor, Status
  <2>6. ASSUME TypeOK, NEW n \in Node, NEW t \in Thread, getAndSetStatus(n, t)
        PROVE  TypeOK'
    BY <2>6 DEF getAndSetStatus, PC, InMonitor
  <2>7. ASSUME TypeOK, NEW n \in Node, NEW t \in Thread,
               emitEventIfZKNodeStatusHasChanged(n, t)
        PROVE  TypeOK'
    <3>1. TasksAfterThrow(n, t) \in Nat
      BY <2>7 DEF TasksAfterThrow
    <3>2. tasks' \in [Node -> Nat]
      BY <2>7, <3>1 DEF emitEventIfZKNodeStatusHasChanged
    <3>3. notified' \in [Node -> Status]
      BY <2>7 DEF emitEventIfZKNodeStatusHasChanged, Callback
    <3>6. beat' \in [Node -> 0..1]
      <4>1. beat[n] \in 0..1 /\ 1 - beat[n] \in 0..1
        BY <2>7
      <4>2. QED
        BY <2>7, <4>1 DEF emitEventIfZKNodeStatusHasChanged, Callback
    <3>4. pc' \in [Node -> [Thread -> PC]]
      BY <2>7 DEF emitEventIfZKNodeStatusHasChanged, PC
    <3>5. local' \in [Node -> [Thread -> Status]]
      BY <2>7 DEF emitEventIfZKNodeStatusHasChanged, Status
    <3>7. QED
      BY <2>7, <3>2, <3>3, <3>4, <3>5, <3>6 DEF emitEventIfZKNodeStatusHasChanged
  <2>8. ASSUME TypeOK, NEW n \in Node, ReachabilityChanges(n)
        PROVE  TypeOK'
    BY <2>8 DEF ReachabilityChanges
  <2>9. ASSUME TypeOK, UNCHANGED vars
        PROVE  TypeOK'
    BY <2>9 DEF vars
  <2>10. QED
    BY <2>1, <2>2, <2>3, <2>4, <2>5, <2>6, <2>7, <2>8, <2>9
       DEF Next, OwnerCall, Internal, Run
<1>3. QED
  BY <1>1, <1>2, PTL DEF Spec

-----------------------------------------------------------------------------
(* The steps of a thread, one at a time *)

\* Taking the monitor leaves the watcher with one thread inside it.
LEMMA EnterPreservesIInv ==
  ASSUME IInv, NEW n \in Node, NEW t \in Thread, send4LetterWord(n, t)
  PROVE  MutualExclusion' /\ ListenerTracksStatus'
<1> USE DEF IInv
<1>1. /\ \A u \in Thread : pc[n][u] \notin InMonitor
      /\ pc' = [pc EXCEPT ![n][t] = "polled"]
      /\ \A m \in Node, u \in Thread : <<m, u>> # <<n, t>> => local'[m][u] = local[m][u]
      /\ zkNodeStatus' = zkNodeStatus /\ notified' = notified
  BY DEF send4LetterWord, MayEnter, MonitorFree, TypeOK
<1>2. pc'[n][t] = "polled"
      /\ \A m \in Node, u \in Thread : <<m, u>> # <<n, t>> => pc'[m][u] = pc[m][u]
  BY <1>1 DEF TypeOK
<1>3. MutualExclusion'
  BY <1>1, <1>2 DEF MutualExclusion, InMonitor
<1>4. ListenerTracksStatus'
  BY <1>1, <1>2 DEF ListenerTracksStatus, InMonitor
<1>5. QED
  BY <1>3, <1>4

\* The getAndSet happens alone in the monitor, so the status it replaces is the
\* one the listener knows.
LEMMA SetPreservesIInv ==
  ASSUME IInv, NEW n \in Node, NEW t \in Thread, getAndSetStatus(n, t)
  PROVE  /\ notified[n] = zkNodeStatus[n]
         /\ MutualExclusion' /\ ListenerTracksStatus'
<1> USE DEF IInv
<1>1. \A u \in Thread : pc[n][u] # "compare"
  BY DEF getAndSetStatus, MutualExclusion, InMonitor
<1>2. notified[n] = zkNodeStatus[n]
  BY <1>1 DEF ListenerTracksStatus
<1>3. /\ pc[n][t] = "polled" /\ pc'[n][t] = "compare"
      /\ \A m \in Node, u \in Thread : <<m, u>> # <<n, t>> =>
           pc'[m][u] = pc[m][u] /\ local'[m][u] = local[m][u]
      /\ local'[n][t] = zkNodeStatus[n]
      /\ \A m \in Node : m # n => zkNodeStatus'[m] = zkNodeStatus[m]
      /\ notified' = notified
  BY DEF getAndSetStatus, TypeOK
<1>4. MutualExclusion'
  BY <1>3 DEF MutualExclusion, InMonitor
<1>5. ListenerTracksStatus'
  BY <1>2, <1>3, <1>1 DEF ListenerTracksStatus
<1>6. QED
  BY <1>2, <1>4, <1>5

\* The comparison finds a difference exactly when the listener is behind, and
\* leaves it up to date.
LEMMA EmitPreservesIInv ==
  ASSUME IInv, NEW n \in Node, NEW t \in Thread,
         emitEventIfZKNodeStatusHasChanged(n, t)
  PROVE  /\ notified[n] = local[n][t]
         /\ MutualExclusion' /\ ListenerTracksStatus'
<1> USE DEF IInv
<1>1. notified[n] = local[n][t]
  BY DEF emitEventIfZKNodeStatusHasChanged, ListenerTracksStatus
<1>2. /\ pc[n][t] = "compare" /\ pc'[n][t] = "idle"
      /\ \A m \in Node, u \in Thread : <<m, u>> # <<n, t>> =>
           pc'[m][u] = pc[m][u] /\ local'[m][u] = local[m][u]
      /\ zkNodeStatus' = zkNodeStatus
  BY DEF emitEventIfZKNodeStatusHasChanged, TypeOK
<1>3. /\ notified'[n] = zkNodeStatus[n]
      /\ \A m \in Node : m # n => notified'[m] = notified[m]
  BY <1>1 DEF emitEventIfZKNodeStatusHasChanged, HasChanged, Callback, TypeOK
<1>4. MutualExclusion'
  BY <1>2 DEF MutualExclusion, InMonitor
<1>5. ListenerTracksStatus'
  <2>1. \A u \in Thread : u # t => pc[n][u] # "compare"
    BY <1>2 DEF MutualExclusion, InMonitor
  <2>2. QED
    BY <1>2, <1>3, <2>1 DEF ListenerTracksStatus
<1>6. QED
  BY <1>1, <1>4, <1>5

\* A thread that starts, and every step that touches no thread, leaves the two
\* conjuncts alone: no thread enters or leaves the monitor.
LEMMA OutsidePreservesIInv ==
  ASSUME IInv,
         zkNodeStatus' = zkNodeStatus, notified' = notified, local' = local,
         \A m \in Node, u \in Thread :
            \/ pc'[m][u] = pc[m][u]
            \/ pc[m][u] = "idle" /\ pc'[m][u] = "entering"
  PROVE  MutualExclusion' /\ ListenerTracksStatus'
<1>1. \A m \in Node, u \in Thread :
        /\ pc'[m][u] \in InMonitor <=> pc[m][u] \in InMonitor
        /\ pc'[m][u] = "compare" <=> pc[m][u] = "compare"
  BY DEF InMonitor
<1>2. MutualExclusion'
  BY <1>1 DEF IInv, MutualExclusion
<1>3. ListenerTracksStatus'
  BY <1>1 DEF IInv, ListenerTracksStatus
<1>4. QED
  BY <1>2, <1>3

\* The invariant is inductive.
LEMMA NextPreservesIInv ==
  ASSUME IInv, [Next]_vars
  PROVE  MutualExclusion' /\ ListenerTracksStatus'
<1>1. CASE \E n \in Node, t \in Thread : send4LetterWord(n, t)
  BY <1>1, EnterPreservesIInv
<1>2. CASE \E n \in Node, t \in Thread : getAndSetStatus(n, t)
  BY <1>2, SetPreservesIInv
<1>3. CASE \E n \in Node, t \in Thread : emitEventIfZKNodeStatusHasChanged(n, t)
  BY <1>3, EmitPreservesIInv
<1>4. CASE \E n \in Node : startMonitoring(n) \/ stopMonitoring(n) \/ ReachabilityChanges(n)
  BY <1>4, OutsidePreservesIInv
     DEF startMonitoring, stopMonitoring, ReachabilityChanges
<1>5. ASSUME NEW n \in Node, NEW t \in Thread,
             pc[n][t] = "idle", pc' = [pc EXCEPT ![n][t] = "entering"],
             zkNodeStatus' = zkNodeStatus, notified' = notified, local' = local
      PROVE  MutualExclusion' /\ ListenerTracksStatus'
  <2>1. \A m \in Node, u \in Thread :
          \/ pc'[m][u] = pc[m][u]
          \/ pc[m][u] = "idle" /\ pc'[m][u] = "entering"
    BY <1>5 DEF IInv, TypeOK
  <2>2. QED
    BY <1>5, <2>1, OutsidePreservesIInv
<1>6. CASE \E n \in Node : pollingCommand(n) \/ \E t \in Updater : updateStatus(n, t)
  BY <1>5, <1>6 DEF pollingCommand, updateStatus, Thread
<1>7. CASE UNCHANGED vars
  BY <1>7, OutsidePreservesIInv DEF vars
<1>8. QED
  BY <1>1, <1>2, <1>3, <1>4, <1>5, <1>6, <1>7 DEF Next, OwnerCall, Internal, Run

-----------------------------------------------------------------------------

\* The invariant holds in every reachable state.
THEOREM IInvCorrect == Spec => []IInv
<1>1. Init => MutualExclusion /\ ListenerTracksStatus
  BY DEF Init, MutualExclusion, ListenerTracksStatus, InMonitor
<1>2. MutualExclusion /\ ListenerTracksStatus /\ TypeOK /\ [Next]_vars
        => MutualExclusion' /\ ListenerTracksStatus'
  BY NextPreservesIInv DEF IInv
<1>3. QED
  BY <1>1, <1>2, TypeCorrect, PTL DEF Spec, IInv

\* Whenever no thread is inside the synchronized method of a watcher, its
\* listener knows the watcher's status.
THEOREM ListenerUpToDateCorrect == Spec => []ListenerUpToDate
<1>1. IInv => ListenerUpToDate
  BY DEF IInv, ListenerUpToDate, ListenerTracksStatus, MonitorFree, InMonitor
<1>2. QED
  BY <1>1, IInvCorrect, PTL

\* The watchers implement EndpointStatus: setting a different status is its
\* Observe, the callback its Notify, every other step a stutter.
THEOREM Refinement == Spec => ImplementsEndpointStatus
<1>1. Init => Abstract!AInit
  BY DEF Init, Abstract!AInit, Status
<1>2. IInv /\ [Next]_vars => [Abstract!ANext]_(Abstract!avars)
  <2> SUFFICES ASSUME IInv, [Next]_vars
               PROVE  Abstract!ANext \/ UNCHANGED Abstract!avars
    OBVIOUS
  <2>1. ASSUME NEW n \in Node, NEW t \in Thread, getAndSetStatus(n, t)
        PROVE  Abstract!ANext \/ UNCHANGED Abstract!avars
    <3>1. notified[n] = zkNodeStatus[n]
      BY <2>1, SetPreservesIInv
    <3>2. local[n][t] \in Status
      BY DEF IInv, TypeOK
    <3>3. CASE local[n][t] = zkNodeStatus[n]
      BY <2>1, <3>3 DEF getAndSetStatus, IInv, TypeOK, Abstract!avars
    <3>4. CASE local[n][t] # zkNodeStatus[n]
      <4>1. Abstract!Observe(n, local[n][t])
        BY <2>1, <3>1, <3>4 DEF getAndSetStatus, Abstract!Observe
      <4>2. QED
        BY <4>1, <3>2 DEF Abstract!ANext
    <3>5. QED
      BY <3>3, <3>4
  <2>2. ASSUME NEW n \in Node, NEW t \in Thread,
               emitEventIfZKNodeStatusHasChanged(n, t)
        PROVE  Abstract!ANext \/ UNCHANGED Abstract!avars
    <3>1. notified[n] = local[n][t]
      BY <2>2, EmitPreservesIInv
    <3>2. CASE HasChanged(n, t)
      <4>1. Abstract!Notify(n)
        BY <2>2, <3>1, <3>2
           DEF emitEventIfZKNodeStatusHasChanged, HasChanged, Callback, Abstract!Notify
      <4>2. QED
        BY <4>1 DEF Abstract!ANext
    <3>3. CASE ~ HasChanged(n, t)
      BY <2>2, <3>3 DEF emitEventIfZKNodeStatusHasChanged, Abstract!avars
    <3>4. QED
      BY <3>2, <3>3
  <2>3. CASE \E n \in Node : \/ startMonitoring(n) \/ stopMonitoring(n)
                             \/ pollingCommand(n) \/ ReachabilityChanges(n)
                             \/ \E t \in Updater : updateStatus(n, t)
                             \/ \E t \in Thread : send4LetterWord(n, t)
    BY <2>3 DEF startMonitoring, stopMonitoring, pollingCommand,
                ReachabilityChanges, updateStatus, send4LetterWord, Abstract!avars
  <2>4. CASE UNCHANGED vars
    BY <2>4 DEF vars, Abstract!avars
  <2>5. QED
    BY <2>1, <2>2, <2>3, <2>4 DEF Next, OwnerCall, Internal, Run
<1>3. QED
  BY <1>1, <1>2, IInvCorrect, PTL DEF Spec, ImplementsEndpointStatus, Abstract!ASpec

=============================================================================
