SPECIFICATION Spec
CONSTANTS
  t1 = t1  t2 = t2  c1 = c1  c2 = c2  th1 = th1  th2 = th2  a = a  b = b
  Turns = {t1}
  Calls = {c1, c2}
  ThreadOf <- MCSameThread
  Items = {a}
  Says = {}
  Forms = {"turn"}
  HasTimeout = TRUE
  OneCallPerTurn = FALSE
  SerialThreads = FALSE
  MaxEvents = 4
  NoCall = NoCall
  NoId = NoId
SYMMETRY CallSymmetry
PROPERTY TokenResumable
CHECK_DEADLOCK FALSE
