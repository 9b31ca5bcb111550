\* No nodes, so that three sessions can be afforded: two restarts in a row, or
\* a restart and a second start() that meet.
CONSTANTS
  Node = {}
  Updater = {u1}
  Poller = Poller
  MaxTasks = 0
  ListenerThrows = TRUE
  Session = {s1, s2, s3}
  Connection = {c1, c2, c3}
  Client = Client
  Null = Null
  ConnectFails = TRUE
  MaxEvents = 2
SPECIFICATION Spec
INVARIANTS SessionsOwned
PROPERTIES ExpiredIsReplaced
CHECK_DEADLOCK FALSE
