SPECIFICATION Spec
CONSTANT Scripts <- MCScripts
INVARIANTS
  SpansPointIntoTheText
  ReadsStayInside
  OperatorsGroup
  StatementsEndAsWritten
PROPERTY EveryInputIsAnswered
CHECK_DEADLOCK FALSE
