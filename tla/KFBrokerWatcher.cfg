\* Two updaters and the poller are enough for a thread to overtake two others.
CONSTANTS
  Broker = {b1}
  Updater = {u1, u2}
  Poller = Poller
  ListenerThrows = TRUE
  ZookeeperFails = TRUE
SPECIFICATION Spec
INVARIANT ListenerUpToDate
PROPERTIES ImplementsEndpointStatus StatusConverges
