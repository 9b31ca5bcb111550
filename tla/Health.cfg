\* Three nodes and three brokers: one can change before, one while and one after
\* the call looks at it.
CONSTANTS
  Broker = {b1, b2, b3}
  Attainable = {"UP", "WARNING", "DOWN"}
  Node = {n1, n2, n3}
SPECIFICATION HealthSpec
INVARIANT AnswerWasTrue
