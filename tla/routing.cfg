SPECIFICATION Spec
CONSTANTS
  t1 = t1  t2 = t2  c1 = c1  c2 = c2  th1 = th1  th2 = th2  a = a  b = b
  Turns = {t1, t2}
  Calls = {c1, c2}
  ThreadOf <- MCSameThread
  Items = {a}
  Says = {"message"}
  Forms = {"turn"}
  HasTimeout = TRUE
  OneCallPerTurn = FALSE
  SerialThreads = FALSE
  MaxEvents = 2
  NoCall = NoCall
  NoId = NoId
SYMMETRY CallSymmetry
INVARIANTS TypeOK OwnEventsOnly NothingLost OutcomesTruthful
PROPERTY ReleasedWhenTerminal
CHECK_DEADLOCK FALSE
