SPECIFICATION Spec
CONSTANTS
  t1 = t1  t2 = t2  c1 = c1  c2 = c2  th1 = th1  th2 = th2  a = a  b = b
  Turns = {t1, t2}
  Calls = {c1}
  ThreadOf <- MCSameThread
  Items = {a}
  Says = {"message"}
  Forms = {"thread"}
  HasTimeout = TRUE
  OneCallPerTurn = TRUE
  SerialThreads = TRUE
  MaxEvents = 3
  NoCall = NoCall
  NoId = NoId
INVARIANT OwnEventsOnly
CHECK_DEADLOCK FALSE
