\* One node: the threads of one watcher never touch another.  Two updaters and
\* the pollers are enough for a thread to overtake two others at the monitor.
\* MaxTasks = 2: a second startMonitoring adds a second periodic task, so that
\* a throwing callback can end one of them and leave the other.
CONSTANTS
  Node = {n1}
  Updater = {u1, u2}
  Poller = Poller
  MaxTasks = 2
  ListenerThrows = TRUE
SPECIFICATION Spec
INVARIANT ListenerUpToDate
PROPERTIES ImplementsEndpointStatus StatusConverges QuietAfterStop
