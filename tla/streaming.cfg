SPECIFICATION Spec
CONSTANTS
  t1 = t1  t2 = t2  c1 = c1  c2 = c2  th1 = th1  th2 = th2  a = a  b = b
  Turns = {t1}
  Calls = {c1}
  ThreadOf <- MCThreadOf
  Items = {a, NoId}
  Says = {"tool", "delta"}
  Forms = {"turn", "bare"}
  HasTimeout = TRUE
  OneCallPerTurn = TRUE
  SerialThreads = FALSE
  MaxEvents = 5
  NoCall = NoCall
  NoId = NoId
INVARIANT StreamExactlyOnce
PROPERTIES TokenResumable Delivers
CHECK_DEADLOCK FALSE
