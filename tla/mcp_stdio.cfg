SPECIFICATION Spec
CONSTANTS
  Scripts <- AllScripts
  MaxLines = 3
CHECK_DEADLOCK FALSE
INVARIANTS
  AnswersInOrder
  GracefulEndAnswersAll
PROPERTIES
  ReadMeansAnswered
  StopsWhenTold
