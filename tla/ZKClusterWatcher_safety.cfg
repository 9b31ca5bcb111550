CONSTANTS
  Node = {n1}
  Updater = {u1}
  Poller = Poller
  MaxTasks = 2
  ListenerThrows = FALSE
  Session = {s1, s2}
  Connection = {c1, c2}
  Client = Client
  Null = Null
  ConnectFails = TRUE
  MaxEvents = 2
SPECIFICATION Spec
INVARIANT QuorumFollowsSession
CHECK_DEADLOCK FALSE
