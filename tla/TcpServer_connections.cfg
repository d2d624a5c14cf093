\* The two lists, the positions the threads report, and the next connection.
SPECIFICATION Spec
CONSTANTS
  c1 = c1  c2 = c2  c3 = c3
  Conn = {c1, c2, c3}
  Main = Main
INVARIANTS ListsParallel DelNamesNewest UndefinedAfterTwoReports SocketOpenWhileServed
PROPERTIES EveryConnectionAccepted
