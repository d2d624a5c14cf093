\* Every way through up to two tests.
SPECIFICATION Spec
CONSTANTS
  singleton = singleton  observer = observer  empty = empty  torn = torn
  q1 = q1  q2 = q2  q3 = q3  q4 = q4
  Pattern = {singleton, observer, empty, torn}
  Question = {q1, q2, q3, q4}
  QuestionsOf <- MCQuestionsOf
  CountOf <- MCCountOf
  Capital = {q4}
  Seconds = 2
  MaxStarts = 2
  Garbage = Garbage
  None = None
INVARIANTS OutOfRangeHasReason DoneSettlesResult FirstTestHasItsTime
PROPERTIES TestEnds
