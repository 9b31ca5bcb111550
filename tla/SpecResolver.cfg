CONSTANTS
  Ref <- MCRef
  Initials <- MCInitials
  Root = "root"
  Url <- MCUrl
  Doc <- MCDoc
  Fragment <- MCFragment
  Http <- MCHttp
  Place <- MCPlace
  There <- MCThere
  Inner <- MCInner
  IterationLimit = 5
  NoDoc = "none"
  None = None
  Schemas <- MCSchemas
  Nulls <- MCNulls
  Defined <- MCDefined
  Unnamed <- MCUnnamed
  Object <- MCObject
SPECIFICATION Spec
INVARIANTS OneRequestPerUrl NothingUnderWay LeftoversExplained DefinitionsKept
PROPERTY HandedBack
CHECK_DEADLOCK FALSE
