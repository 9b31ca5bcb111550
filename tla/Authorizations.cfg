SPECIFICATION Spec
CONSTANTS
  None = None
  Descriptions <- MCDescriptions
  Inputs = {"", "one"}
  Clients = {"id"}
  MaxPopups = 2
  MaxLogins = 2
  MaxLate = 1
  Forgotten = {f1}
INVARIANTS
  
  CredentialsAsTyped
  AskedAsTyped
  TokensFiled
CHECK_DEADLOCK FALSE
