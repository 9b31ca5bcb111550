--------------------------- MODULE KFClusterWatcher ---------------------------
(***************************************************************************)
(* kafka/KFClusterWatcher.java: the Zookeeper session of the Kafka         *)
(* monitor, the one-shot watch on /brokers/ids that it keeps alive, and    *)
(* the calls start() and stop() of a client thread that run against the    *)
(* events of the session.                                                  *)
(*                                                                         *)
(* A Session is one ZooKeeper object, with an event thread of its own that *)
(* calls process(event) in order.  setupWatcherAsync starts a thread that  *)
(* repeats getChildren on whatever session the field zkClient holds at the *)
(* time, until it succeeds; only the number of these threads matters.      *)
(* What a broker watcher does is in KFBrokerWatcher; here they are started *)
(* and stopped together, and asked together for an update.                 *)
(***************************************************************************)
EXTENDS Naturals, Sequences, FiniteSets

CONSTANTS Session,      \* ZooKeeper objects; bounds starts and restarts
          Client,       \* the thread that calls start() and stop()
          Null,         \* a null reference
          ConnectFails, \* may new ZooKeeper(...) throw IOException?
          MaxEvents,    \* bound on the events a session has queued
          MaxSetups     \* bound on the threads of setupWatcherAsync

ASSUME ActorAssumption == Client \notin Session
ASSUME NullAssumption == Null \notin Session
ASSUME ConnectAssumption == ConnectFails \in BOOLEAN
ASSUME BoundAssumption == MaxEvents \in Nat /\ MaxSetups \in Nat

VARIABLES zkClient, \* the field: a Session or Null
          session,  \* state of each ZooKeeper object
          events,   \* queue of its event thread
          watch,    \* sessions with a watch on /brokers/ids
          missed,   \* of those, disconnected ones whose watch has been hit
          op,       \* what each thread is doing
          opened,   \* the session it has opened, until zkClient points to it
          setups,   \* threads of setupWatcherAsync that are still looping
          brokers,  \* the broker watchers: "new", "polled" or "stopped"
          stale,    \* have the registered brokers changed since the broker
                    \* watchers were last asked for an update?
          overlap,  \* history: have two threads reconnected at the same time?
          failed    \* history: did the last attempt to connect fail?

vars == <<zkClient, session, events, watch, missed, op, opened, setups, brokers,
          stale, overlap, failed>>

Actor == Session \cup {Client}
Live == {"connecting", "connected", "disconnected"}
Event == {"SyncConnected", "Disconnected", "Expired", "NodeChildrenChanged"}

\* "close", "clear": closeConnection; "connect", "assign": openZKConnection;
\* "setup": setupWatcherAsync; "update": updateBrokerStatus.  "rewatch" is the
\* setupWatcherAsync that an event of the watch begins with.
Reconnecting == {"close", "clear", "connect", "assign"}
Op == {"idle", "setup", "rewatch", "update"} \cup Reconnecting

TypeOK ==
  /\ zkClient \in Session \cup {Null}
  /\ session \in [Session -> {"unused", "expired", "closed"} \cup Live]
  /\ events \in [Session -> Seq(Event)]
  /\ watch \in SUBSET Session
  /\ missed \in SUBSET Session
  /\ op \in [Actor -> Op]
  /\ opened \in [Actor -> Session \cup {Null}]
  /\ setups \in Nat
  /\ brokers \in {"new", "polled", "stopped"}
  /\ stale \in BOOLEAN
  /\ overlap \in BOOLEAN
  /\ failed \in BOOLEAN

Init ==
  /\ zkClient = Null
  /\ session = [s \in Session |-> "unused"]
  /\ events = [s \in Session |-> <<>>]
  /\ watch = {}
  /\ missed = {}
  /\ op = [a \in Actor |-> "idle"]
  /\ opened = [a \in Actor |-> Null]
  /\ setups = 0
  /\ brokers = "new"
  /\ stale = FALSE
  /\ overlap = FALSE
  /\ failed = FALSE

\* Thread a goes on to x; two threads that open or close the session at the
\* same time are remembered.
Becomes(a, x) ==
  /\ op' = [op EXCEPT ![a] = x]
  /\ overlap' = (overlap \/ \E b \in Actor \ {a} : {x, op[b]} \subseteq Reconnecting)

-----------------------------------------------------------------------------
(* closeConnection and openZKConnection, by the client or an event thread *)

\* Mutant of CloseClient: only the field is cleared, the session is not closed.
CloseClientForgets(a) ==
  /\ op[a] = "close"
  /\ Becomes(a, "clear")
  /\ UNCHANGED <<zkClient, session, events, watch, missed, opened, setups, brokers,
                 stale, failed>>

\* Mutant of AfterClose: a restart only closes the session.
AfterCloseForGood(a) == "idle"

\* stop() is done after closeConnection, a restart goes on.
AfterClose(a) == IF a = Client THEN "idle" ELSE "connect"

\* zkClient.close(), whose exceptions are swallowed; the server forgets the
\* watches of the session.
CloseClient(a) ==
  /\ op[a] = "close"
  /\ \/ /\ zkClient = Null
        /\ Becomes(a, AfterClose(a))
        /\ UNCHANGED <<session, watch, missed>>
     \/ /\ zkClient # Null
        /\ Becomes(a, "clear")
        /\ session' = [session EXCEPT ![zkClient] = "closed"]
        /\ watch' = watch \ {zkClient}
        /\ missed' = missed \ {zkClient}
  /\ UNCHANGED <<zkClient, events, opened, setups, brokers, stale, failed>>

\* The finally clause: zkClient = null.
ClearClient(a) ==
  /\ op[a] = "clear"
  /\ zkClient' = Null
  /\ Becomes(a, AfterClose(a))
  /\ UNCHANGED <<session, events, watch, missed, opened, setups, brokers, stale, failed>>

Unused == {s \in Session : session[s] = "unused"}
NewSession == CHOOSE s \in Unused : TRUE

\* zkConnection.connect(...): the session lives, and has events, before the
\* field points to it.
ConnectSession(a) ==
  /\ op[a] = "connect"
  /\ \/ /\ Unused # {}
        /\ session' = [session EXCEPT ![NewSession] = "connecting"]
        /\ opened' = [opened EXCEPT ![a] = NewSession]
        /\ Becomes(a, "assign")
        /\ failed' = FALSE
     \/ /\ ConnectFails
        /\ Becomes(a, "idle")
        /\ failed' = TRUE
        /\ UNCHANGED <<session, opened>>
  /\ UNCHANGED <<zkClient, events, watch, missed, setups, brokers, stale>>

AssignClient(a) ==
  /\ op[a] = "assign"
  /\ zkClient' = opened[a]
  /\ opened' = [opened EXCEPT ![a] = Null]
  /\ Becomes(a, "setup")
  /\ UNCHANGED <<session, events, watch, missed, setups, brokers, stale, failed>>

-----------------------------------------------------------------------------
(* setupWatcherAsync and updateBrokerStatus *)

\* Mutant of setupWatcherAsync: an event of the watch only sets it again.
setupWatcherAsyncOnly(a) ==
  /\ op[a] \in {"setup", "rewatch"}
  /\ setups < MaxSetups
  /\ setups' = setups + 1
  /\ Becomes(a, "idle")
  /\ UNCHANGED <<zkClient, session, events, watch, missed, opened, brokers, stale, failed>>

setupWatcherAsync(a) ==
  /\ op[a] \in {"setup", "rewatch"}
  /\ setups < MaxSetups
  /\ setups' = setups + 1
  /\ Becomes(a, IF op[a] = "rewatch" THEN "update" ELSE "idle")
  /\ UNCHANGED <<zkClient, session, events, watch, missed, opened, brokers, stale, failed>>

\* Mutant of getChildren: a null field is one more reason to wait and try again.
getChildrenWaitsForClient ==
  /\ setups > 0
  /\ zkClient # Null
  /\ session[zkClient] = "connected"
  /\ watch' = watch \cup {zkClient}
  /\ setups' = setups - 1
  /\ UNCHANGED <<zkClient, session, events, missed, op, opened, brokers, stale,
                 overlap, failed>>

\* One thread of setupWatcherAsync finishes.  A null field ends it too, by a
\* NullPointerException; every KeeperException makes it wait and try again,
\* which is no step.
getChildren ==
  /\ setups > 0
  /\ \/ /\ zkClient = Null
        /\ UNCHANGED watch
     \/ /\ zkClient # Null
        /\ session[zkClient] = "connected"
        /\ watch' = watch \cup {zkClient}
  /\ setups' = setups - 1
  /\ UNCHANGED <<zkClient, session, events, missed, op, opened, brokers, stale,
                 overlap, failed>>

\* Every broker watcher starts a thread that looks its registration up.
updateBrokerStatus(a) ==
  /\ op[a] = "update"
  /\ stale' = FALSE
  /\ Becomes(a, "idle")
  /\ UNCHANGED <<zkClient, session, events, watch, missed, opened, setups, brokers, failed>>

-----------------------------------------------------------------------------
(* process(event), on the event thread of session s *)

\* Mutant of OpAfter: no new watch.
OpAfterNoWatch(e) == IF e = "Expired" THEN "close" ELSE "update"

OpAfter(e) == CASE e = "NodeChildrenChanged" -> "rewatch"
                [] e = "Expired" -> "close"
                [] OTHER -> "update"

\* An event that finds no client is dropped.
Process(s) ==
  /\ op[s] = "idle"
  /\ events[s] # <<>>
  /\ events' = [events EXCEPT ![s] = Tail(@)]
  /\ \/ /\ zkClient = Null
        /\ UNCHANGED <<op, overlap>>
     \/ /\ zkClient # Null
        /\ Becomes(s, OpAfter(Head(events[s])))
  /\ UNCHANGED <<zkClient, session, watch, missed, opened, setups, brokers, stale, failed>>

-----------------------------------------------------------------------------
(* The client's calls *)

\* The threads that have begun to replace a session, and those that a queued
\* event will make do so, find an unused one: the bound of Session.
WillConnect ==
  {a \in Actor :
     \/ op[a] = "connect"
     \/ /\ a \in Session
        /\ \/ op[a] \in {"close", "clear"}
           \/ \E i \in DOMAIN events[a] : events[a][i] = "Expired"}
MayConnectAnother == Cardinality(WillConnect) < Cardinality(Unused)

\* start() does nothing if there is a client; the executors of stopped broker
\* watchers refuse to start again, and the exception leaves start().
Start ==
  /\ op[Client] = "idle"
  /\ zkClient = Null
  /\ brokers # "stopped"
  /\ MayConnectAnother
  /\ brokers' = "polled"
  /\ Becomes(Client, "connect")
  /\ UNCHANGED <<zkClient, session, events, watch, missed, opened, setups, stale, failed>>

Stop ==
  /\ op[Client] = "idle"
  /\ brokers' = "stopped"
  /\ Becomes(Client, "close")
  /\ UNCHANGED <<zkClient, session, events, watch, missed, opened, setups, stale, failed>>

-----------------------------------------------------------------------------
(* The ensemble and the network *)

\* Session s moves to a state, and its events es are queued.
SessionMoves(s, to, es) ==
  /\ session' = [session EXCEPT ![s] = to]
  /\ Len(events[s] \o es) <= MaxEvents
  /\ events' = [events EXCEPT ![s] = @ \o es]
  /\ missed' = missed \ {s}
  /\ UNCHANGED <<zkClient, op, opened, setups, brokers, stale, overlap, failed>>

\* The library sets its watches again; one that has been hit fires at once.
SessionConnects(s) ==
  /\ session[s] \in {"connecting", "disconnected"}
  /\ IF s \in missed
       THEN /\ SessionMoves(s, "connected", <<"SyncConnected", "NodeChildrenChanged">>)
            /\ watch' = watch \ {s}
       ELSE /\ SessionMoves(s, "connected", <<"SyncConnected">>)
            /\ UNCHANGED watch

SessionDisconnects(s) ==
  /\ session[s] = "connected"
  /\ SessionMoves(s, "disconnected", <<"Disconnected">>)
  /\ UNCHANGED watch

SessionExpires(s) ==
  /\ session[s] = "disconnected"
  /\ MayConnectAnother
  /\ SessionMoves(s, "expired", <<"Expired">>)
  /\ watch' = watch \ {s}

\* A broker registers or goes: each watch fires, once, where it can.
BrokersChange ==
  LET fires == {s \in watch : session[s] = "connected"}
  IN /\ \A s \in fires : Len(events[s]) < MaxEvents
     /\ events' = [s \in Session |-> IF s \in fires
                                       THEN Append(events[s], "NodeChildrenChanged")
                                       ELSE events[s]]
     /\ watch' = watch \ fires
     /\ missed' = missed \cup (watch \ fires)
     /\ stale' = TRUE
     /\ UNCHANGED <<zkClient, session, op, opened, setups, brokers, overlap, failed>>

-----------------------------------------------------------------------------

\* The next step of a method that thread a is executing.
Advance(a) ==
  \/ CloseClient(a)
  \/ ClearClient(a)
  \/ ConnectSession(a)
  \/ AssignClient(a)
  \/ setupWatcherAsync(a)
  \/ updateBrokerStatus(a)

EventThread(s) == Process(s) \/ Advance(s)

Next ==
  \/ Start
  \/ Stop
  \/ Advance(Client)
  \/ getChildren
  \/ \E s \in Session :
       EventThread(s) \/ SessionConnects(s) \/ SessionDisconnects(s) \/ SessionExpires(s)
  \/ BrokersChange

\* The threads of the program go on; calls and the fate of sessions and brokers
\* are not promised.  A setup thread that keeps finding a connected session is
\* not held up by getChildren.
Fairness ==
  /\ WF_vars(Advance(Client))
  /\ WF_vars(getChildren)
  /\ \A s \in Session : WF_vars(EventThread(s))

Spec == Init /\ [][Next]_vars /\ Fairness

-----------------------------------------------------------------------------
(* Properties *)

Open(s) == session[s] \in Live

\* Every open session is the one zkClient points to or one that a thread is
\* about to store there, unless two threads have reconnected at once.
SessionsOwned ==
  ~ overlap =>
    \A s \in Session :
      Open(s) => zkClient = s \/ \E a \in Actor : opened[a] = s /\ op[a] = "assign"

\* The one-shot watch is set again: however often it fires, a session that stays
\* connected and in use has its watch again and again.
WatchRearmed ==
  \A s \in Session :
    <>[](zkClient = s /\ session[s] = "connected") => []<>(s \in watch)

\* The Expired event of the session in use gets it replaced, whatever start()
\* does meanwhile, unless the client stops the monitor.  Only a connect that was
\* tried and failed, which no thread tries again, may leave zkClient null.
ExpiredIsReplaced ==
  \A s \in Session :
    zkClient = s /\ (\E i \in DOMAIN events[s] : events[s][i] = "Expired")
      ~> \/ zkClient \notin {s, Null}
         \/ zkClient = Null /\ failed /\ (\A a \in Actor : op[a] \notin Reconnecting)
         \/ brokers = "stopped"

\* After stop() the threads of setupWatcherAsync end, whatever they were
\* waiting for; a start() would have to succeed to bring one back.
SetupsEnd == brokers = "stopped" /\ op[Client] = "idle" /\ ~ overlap ~> setups = 0 \/ overlap

\* A watch that fires makes the broker watchers look again, as long as its
\* session is in use and connected, however many other events come first.
ChangesReported ==
  \A s \in Session :
    zkClient = s /\ (\E i \in DOMAIN events[s] : events[s][i] = "NodeChildrenChanged")
      ~> ~ stale \/ zkClient # s \/ session[s] # "connected"

=============================================================================
