\* The result that is stored after the time is over.
SPECIFICATION Spec
CONSTANTS
  singleton = singleton  observer = observer  empty = empty  torn = torn
  q1 = q1  q2 = q2  q3 = q3  q4 = q4
  Pattern = {singleton, observer, empty, torn}
  Question = {q1, q2, q3, q4}
  QuestionsOf <- MCQuestionsOf
  CountOf <- MCCountOf
  Capital = {q4}
  Seconds = 2
  MaxStarts = 3
  Garbage = Garbage
  None = None
INVARIANT StoredAsShown
