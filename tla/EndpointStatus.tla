--------------------------- MODULE EndpointStatus ---------------------------
(***************************************************************************)
(* What a monitor promises the listener it was built with, abstractly.     *)
(* Each monitored endpoint (a Zookeeper node, a Kafka broker) has a status *)
(* and the status its listener was last told of.  A status never moves on  *)
(* while the listener still has to be told of the previous change, and     *)
(* there is no callback without a change: the callbacks are the status     *)
(* changes, in order, each exactly once.  beat counts the callbacks modulo *)
(* 2, so that a repeated one is a step and not a stutter.                  *)
(* ZKNodeWatcher and KFBrokerWatcher are shown to implement this module.   *)
(***************************************************************************)
EXTENDS Naturals

CONSTANTS Endpoint, \* the endpoints being monitored
          Status    \* the values of their status enumeration

VARIABLES status,   \* the status a client of the monitor would read
          notified, \* the status given to the listener by the last callback
          beat      \* callbacks made so far, modulo 2

avars == <<status, notified, beat>>

AInit ==
  /\ status \in [Endpoint -> Status]
  /\ notified = status
  /\ beat = [e \in Endpoint |-> 0]

\* A probe of the endpoint found a different status.
Observe(e, s) ==
  /\ notified[e] = status[e]
  /\ s # status[e]
  /\ status' = [status EXCEPT ![e] = s]
  /\ UNCHANGED <<notified, beat>>

\* The listener is called back with the status that was set.
Notify(e) ==
  /\ notified[e] # status[e]
  /\ notified' = [notified EXCEPT ![e] = status[e]]
  /\ beat' = [beat EXCEPT ![e] = 1 - @]
  /\ UNCHANGED status

ANext == \E e \in Endpoint :
           \/ \E s \in Status : Observe(e, s)
           \/ Notify(e)

ASpec == AInit /\ [][ANext]_avars

=============================================================================
