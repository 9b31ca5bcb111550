SPECIFICATION Spec
CONSTANTS
  None = None
  Descriptions <- MCDescriptions
  escaped <- MCEscaped
  docExpansions = {"none", "list"}
  Extensions = {"x-note"}
INVARIANTS
  OperationsListed
  ResponsesShown
  LinksLead
  SamplesReadable
  ModelsListed
CHECK_DEADLOCK FALSE
