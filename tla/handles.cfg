SPECIFICATION Spec
CONSTANTS
  c1 = c1  c2 = c2  h1 = h1  h2 = h2  t1 = t1  t2 = t2
  model = model  cwd = cwd  x = x  y = y
  Fields = {model, cwd}
  Values = {x, y}
  Unset = unset
  Calls = {c1, c2}
  Handles = {h1, h2}
  Threads = {t1, t2}
  Overrides <- MCOverrides
  NoThread = NoThread
  NoHandle = NoHandle
SYMMETRY AllSymmetry
INVARIANTS TypeOK SnapshotTrue NoLostUpdate
CHECK_DEADLOCK FALSE
