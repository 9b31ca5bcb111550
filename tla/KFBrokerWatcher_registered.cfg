\* Zookeeper always answers and no callback throws: what keeps a registered broker
\* from being UP is what becomes of the answer.
CONSTANTS
  Broker = {b1}
  Updater = {u1}
  Poller = Poller
  ListenerThrows = FALSE
  ZookeeperFails = FALSE
SPECIFICATION Spec
PROPERTY RegisteredIsUp
