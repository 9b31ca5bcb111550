\* Three sessions: two restarts in a row, or a restart and a second start().
\* Two threads that set watches can wait for a session at the same time; a session
\* queues two events, SyncConnected and the firing of a missed watch.
CONSTANTS
  Session = {s1, s2, s3}
  Client = Client
  Null = Null
  ConnectFails = TRUE
  MaxEvents = 2
  MaxSetups = 2
SPECIFICATION Spec
INVARIANT SessionsOwned
PROPERTIES WatchRearmed ExpiredIsReplaced SetupsEnd ChangesReported
CHECK_DEADLOCK FALSE
