SPECIFICATION FairSpec
CONSTANTS
  t1 = t1  t2 = t2  c1 = c1  c2 = c2  th1 = th1  th2 = th2  a = a  b = b
  Turns = {t1, t2}
  Calls = {c1, c2}
  ThreadOf <- MCSameThread
  Items = {a}
  Says = {}
  Forms = {"turn"}
  HasTimeout = TRUE
  OneCallPerTurn = TRUE
  SerialThreads = FALSE
  MaxEvents = 2
  NoCall = NoCall
  NoId = NoId
PROPERTIES WaitersWake EndedTurnWakes
CHECK_DEADLOCK FALSE
