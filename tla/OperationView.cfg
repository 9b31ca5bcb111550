SPECIFICATION Spec
CONSTANTS
  noValue = noValue
  None = noValue
  Ops <- MCOps
  MaxSubmissions = 2
  Submitted <- MCSubmitted
  Answers <- MCAnswers
  Authz <- MCAuthz
  OptionNames <- MCOptionNames
INVARIANTS
  HeardOnce
  EnteredIsSent
  FormsDeclared
PROPERTIES
  CurlRepeats
  AnswersShown
CHECK_DEADLOCK FALSE
